---- MODULE Spec2Model ----
(***************************************************************************)
(* Model of clara-care: the email tools (tools/email_validator.py,         *)
(* tools/web_search.py), the database tools (tools/claim_status.py,        *)
(* tools/db_search.py), the client accessor (supabase_client.py) and the   *)
(* agents of the workflow (agent.py, sub_agents/).                         *)
(*                                                                         *)
(* Strings are sequences of one-character strings.  Scores, confidences    *)
(* and penalties are exact fixed-point numbers: a confidence or a penalty  *)
(* is a number of hundredths (1.0 is 100), a score a number of millionths  *)
(* (1.0 is 1000000), so that the product base * (1 - penalty) is exact.    *)
(***************************************************************************)
EXTENDS Integers, Sequences, FiniteSets, TLC

VARIABLES
    pc,        \* Spec: the caller's position, "idle" or "returned"
    op,        \* Spec: the tool function of the last call
    args,      \* Spec: the arguments of the last call
    result,    \* Spec: what the last call returned
    tpc,       \* SpecMX: each thread's position in check_domain_mx_records
    timeoutArg,       \* SpecMX: each call's timeout argument
    originalTimeout,  \* SpecMX: each call's local original_timeout
    socketDefault,    \* SpecMX: the process-wide socket default timeout
    dnsAvailable,     \* SpecMX: whether import dns.resolver succeeds
    lookups,   \* SpecMX: per call, the lookups made, each with the timeout in effect
    mxResult,  \* SpecMX: per call, the value returned (or the exception raised)
    warranty_claims,       \* SpecDB: the rows of the warranty_claims table, by id
    claim_status_history,  \* SpecDB: the rows of the claim_status_history table
    changedRows,     \* SpecDB: the update_claim_status calls that changed a row
    clock,           \* SpecDB: the time datetime.now reads
    supabase_client, \* the module global of supabase_client.py
    lruCache,        \* what the lru_cache of get_supabase_client holds
    clientsCreated,  \* the number of client instances create_client has made
    gpc,             \* SpecClient: each thread's position in get_client
    gLocal,          \* SpecClient: the client a thread's call holds
    gResult,         \* SpecClient: what a thread's call returned
    agentPc,         \* SpecFlow: each agent's position in the run of a claim
    session_state,   \* SpecFlow: the session state the output_keys write to
    judgeInput,      \* SpecFlow: the values the judge's placeholders took
    route,           \* SpecFlow: the flow the orchestrator took at step 3
    confidence_threshold  \* SpecFlow: settings.confidence_threshold, in hundredths

toolVars == <<pc, op, args, result>>
mxVars == <<tpc, timeoutArg, originalTimeout, socketDefault, dnsAvailable,
            lookups, mxResult>>
dbVars == <<warranty_claims, claim_status_history, changedRows, clock>>
clientVars == <<supabase_client, lruCache, clientsCreated, gpc, gLocal, gResult>>
flowVars == <<agentPc, session_state, judgeInput, route, confidence_threshold>>
vars == <<pc, op, args, result, tpc, timeoutArg, originalTimeout, socketDefault,
          dnsAvailable, lookups, mxResult, warranty_claims, claim_status_history,
          changedRows, clock, supabase_client, lruCache, clientsCreated, gpc,
          gLocal, gResult, agentPc, session_state, judgeInput, route,
          confidence_threshold>>

(***************************************************************************)
(* Characters and the str methods the tools use.                           *)
(***************************************************************************)
LowerSeq == <<"a", "b", "c", "d", "e", "f", "g", "h", "i", "j", "k", "l", "m",
              "n", "o", "p", "q", "r", "s", "t", "u", "v", "w", "x", "y", "z">>
UpperSeq == <<"A", "B", "C", "D", "E", "F", "G", "H", "I", "J", "K", "L", "M",
              "N", "O", "P", "Q", "R", "S", "T", "U", "V", "W", "X", "Y", "Z">>
LowerLetters == {LowerSeq[i] : i \in 1..Len(LowerSeq)}
UpperLetters == {UpperSeq[i] : i \in 1..Len(UpperSeq)}
Letters == LowerLetters \cup UpperLetters
Digits == {"0", "1", "2", "3", "4", "5", "6", "7", "8", "9"}
Vowels == {"a", "e", "i", "o", "u"}
Whitespace == {" ", "\t", "\n"}

\* The regex classes [a-zA-Z0-9._%+-] and [a-zA-Z0-9.-]
LocalClass == Letters \cup Digits \cup {".", "_", "%", "+", "-"}
DomainClass == Letters \cup Digits \cup {".", "-"}

SetMax(S) == CHOOSE x \in S : \A y \in S : y <= x
SetMin(S) == CHOOSE x \in S : \A y \in S : x <= y

LowerOf ==
    [c \in UpperLetters |-> LowerSeq[CHOOSE i \in 1..Len(UpperSeq) : UpperSeq[i] = c]]

LowerChar(c) == IF c \in UpperLetters THEN LowerOf[c] ELSE c

\* str.lower()
Lower(s) == [i \in 1..Len(s) |-> LowerChar(s[i])]

\* str.strip()
Strip(s) ==
    LET keep == {i \in 1..Len(s) : s[i] \notin Whitespace}
    IN  IF keep = {} THEN <<>> ELSE SubSeq(s, SetMin(keep), SetMax(keep))

\* The index of the last c in s, 0 when there is none
LastIndexOf(s, c) ==
    LET at == {i \in 1..Len(s) : s[i] = c}
    IN  IF at = {} THEN 0 ELSE SetMax(at)

HasChar(s, c) == \E i \in 1..Len(s) : s[i] = c

\* s.rsplit(c, 1)[0] and s.rsplit(c, 1)[-1]  (s itself when c is not in s)
RSplitHead(s, c) ==
    IF HasChar(s, c) THEN SubSeq(s, 1, LastIndexOf(s, c) - 1) ELSE s
RSplitTail(s, c) ==
    IF HasChar(s, c) THEN SubSeq(s, LastIndexOf(s, c) + 1, Len(s)) ELSE s

\* sub in s
Contains(s, sub) ==
    \E i \in 0..(Len(s) - Len(sub)) : SubSeq(s, i + 1, i + Len(sub)) = sub

StartsWith(s, p) == Len(p) <= Len(s) /\ SubSeq(s, 1, Len(p)) = p
EndsWith(s, p) == Len(p) <= Len(s) /\ SubSeq(s, Len(s) - Len(p) + 1, Len(s)) = p

\* s.replace(c, "") and s.replace(c, d) for one-character c and d
RemoveChar(s, c) == SelectSeq(s, LAMBDA x : x # c)
ReplaceChar(s, c, d) == [i \in 1..Len(s) |-> IF s[i] = c THEN d ELSE s[i]]

AllIn(s, class) == \A i \in 1..Len(s) : s[i] \in class

\* c * n
Repeat(c, n) == [i \in 1..n |-> c]

RECURSIVE JoinDot(_)
\* ".".join(labels)
JoinDot(labels) ==
    IF Len(labels) = 0 THEN <<>>
    ELSE IF Len(labels) = 1 THEN labels[1]
    ELSE labels[1] \o <<".">> \o JoinDot(Tail(labels))

(***************************************************************************)
(* email_validator.py: the module constants.                               *)
(***************************************************************************)
FREE_EMAIL_PROVIDERS ==
    { <<"g", "m", "a", "i", "l", ".", "c", "o", "m">>,
      <<"y", "a", "h", "o", "o", ".", "c", "o", "m">>,
      <<"y", "a", "h", "o", "o", ".", "c", "o", ".", "u", "k">>,
      <<"h", "o", "t", "m", "a", "i", "l", ".", "c", "o", "m">>,
      <<"o", "u", "t", "l", "o", "o", "k", ".", "c", "o", "m">>,
      <<"l", "i", "v", "e", ".", "c", "o", "m">>,
      <<"a", "o", "l", ".", "c", "o", "m">>,
      <<"i", "c", "l", "o", "u", "d", ".", "c", "o", "m">>,
      <<"m", "a", "i", "l", ".", "c", "o", "m">>,
      <<"p", "r", "o", "t", "o", "n", "m", "a", "i", "l", ".", "c", "o", "m">>,
      <<"p", "r", "o", "t", "o", "n", ".", "m", "e">>,
      <<"z", "o", "h", "o", ".", "c", "o", "m">>,
      <<"y", "a", "n", "d", "e", "x", ".", "c", "o", "m">>,
      <<"g", "m", "x", ".", "c", "o", "m">>,
      <<"g", "m", "x", ".", "n", "e", "t">>,
      <<"t", "u", "t", "a", "n", "o", "t", "a", ".", "c", "o", "m">>,
      <<"f", "a", "s", "t", "m", "a", "i", "l", ".", "c", "o", "m">> }

SUSPICIOUS_TLDS ==
    { <<"x", "y", "z">>,
      <<"t", "o", "p">>,
      <<"c", "l", "i", "c", "k">>,
      <<"l", "i", "n", "k">>,
      <<"i", "n", "f", "o">>,
      <<"b", "i", "z">>,
      <<"w", "i", "n">>,
      <<"l", "o", "a", "n">>,
      <<"w", "o", "r", "k">>,
      <<"d", "a", "t", "e">>,
      <<"r", "a", "c", "i", "n", "g">>,
      <<"r", "e", "v", "i", "e", "w">>,
      <<"d", "o", "w", "n", "l", "o", "a", "d">>,
      <<"s", "t", "r", "e", "a", "m">> }

\* The pattern [a-zA-Z0-9._%+-]+@[a-zA-Z0-9.-]+\.[a-zA-Z]{2,} over the whole
\* of s: "@" and the last "." of the domain are forced, since neither the
\* local class holds "@" nor the final letters a ".".
FullMatch(s) ==
    LET k == LastIndexOf(s, "@")
        local == SubSeq(s, 1, k - 1)
        dom == SubSeq(s, k + 1, Len(s))
        d == LastIndexOf(dom, ".")
    IN  /\ k > 1
        /\ AllIn(local, LocalClass)
        /\ d > 1
        /\ AllIn(SubSeq(dom, 1, d - 1), DomainClass)
        /\ Len(dom) - d >= 2
        /\ AllIn(SubSeq(dom, d + 1, Len(dom)), Letters)

\* EMAIL_PATTERN.match(s) with ^...$: "$" also matches before a final "\n"
PatternMatch(s) ==
    \/ FullMatch(s)
    \/ Len(s) > 0 /\ s[Len(s)] = "\n" /\ FullMatch(SubSeq(s, 1, Len(s) - 1))

(***************************************************************************)
(* check_email_format: (valid, issues).                                    *)
(***************************************************************************)
IssueIf(cond, text) == IF cond THEN <<text>> ELSE <<>>

\* The local part left unexamined
LocalIssues_None(local_part) == <<>>

\* lines 92-102
LocalIssues(local_part) ==
    (IF Len(local_part) < 1 THEN <<"Local part (before @) is empty">>
     ELSE IF Len(local_part) > 64 THEN <<"Local part exceeds 64 characters">>
     ELSE <<>>)
    \o IssueIf(StartsWith(local_part, <<".">>), "Local part starts with period")
    \o IssueIf(EndsWith(local_part, <<".">>), "Local part ends with period")
    \o IssueIf(Contains(local_part, <<".", ".">>),
               "Local part contains consecutive periods")

DomainIssues(domain) ==
    (IF Len(domain) < 3 THEN <<"Domain is too short">>
     ELSE IF Len(domain) > 255 THEN <<"Domain exceeds 255 characters">>
     ELSE <<>>)
    \o IssueIf(StartsWith(domain, <<".">>), "Domain starts with period")
    \o IssueIf(StartsWith(domain, <<"-">>), "Domain starts with hyphen")
    \o IssueIf(EndsWith(domain, <<"-">>), "Domain ends with hyphen")
    \o IssueIf(Contains(domain, <<".", ".">>),
               "Domain contains consecutive periods")

\* The verdict that lets one issue pass
FormatVerdict_AtMostOne(issues) == Len(issues) <= 1

FormatVerdict(issues) == Len(issues) = 0

check_email_format(email) ==
    IF Len(email) = 0
    THEN [valid |-> FALSE, issues |-> <<"Email is empty">>]
    ELSE LET e == Strip(email)
         IN  IF ~PatternMatch(e)
             THEN [valid |-> FALSE,
                   issues |-> <<"Email format does not match RFC 5322 pattern">>]
             ELSE IF ~HasChar(e, "@")
             THEN [valid |-> FALSE, issues |-> <<"Email missing @ symbol">>]
             ELSE LET issues == LocalIssues(RSplitHead(e, "@"))
                                \o DomainIssues(RSplitTail(e, "@"))
                  IN  [valid |-> FormatVerdict(issues), issues |-> issues]

(***************************************************************************)
(* check_domain_mx_records: what each lookup can report, and how the       *)
(* try/except layers turn it into the returned (exists, detail) pair.      *)
(* A computation either returns a pair or raises an exception.             *)
(***************************************************************************)
MXOutcomes == {"records", "empty", "NoAnswer", "NXDOMAIN", "NoNameservers",
               "Timeout", "OtherError"}
AOutcomes == {"records", "empty", "error"}
HostOutcomes == {"resolved", "gaierror", "other_error"}

Ret(exists, detail) == [kind |-> "return", exists |-> exists, detail |-> detail]
Raise(exc) == [kind |-> "raise", exc |-> exc]

\* lines 141-144: the MX lookup and the two returns that follow it
MxAttempt(o) ==
    IF o = "records" THEN Ret(TRUE, "Found MX record(s)")
    ELSE IF o = "empty" THEN Ret(FALSE, "No MX records found")
    ELSE Raise(o)

\* The fallback taken for a domain that does not exist as well
FallsBackToA_AlsoNxdomain(o) == o \in {"NoAnswer", "NXDOMAIN"}

\* line 145: the exception that sends the call to the A lookup
FallsBackToA(o) == o = "NoAnswer"

\* lines 147-153: the A lookup; its own exceptions are swallowed
AFallback(a) ==
    IF a = "records" THEN Ret(TRUE, "No MX records but A record exists")
    ELSE Ret(FALSE, "No MX or A records found")

\* lines 145-159: the handlers of the inner try
InnerExcept(r, a) ==
    IF r.kind = "return" THEN r
    ELSE IF FallsBackToA(r.exc) THEN AFallback(a)
    ELSE IF r.exc = "NXDOMAIN" THEN Ret(FALSE, "Domain does not exist (NXDOMAIN)")
    ELSE IF r.exc = "NoNameservers"
         THEN Ret(FALSE, "No nameservers available for domain")
    ELSE Ret(FALSE, "DNS lookup error: ")

\* lines 161-167: the socket fallback when dnspython cannot be imported
HostAttempt(h) ==
    IF h = "resolved" THEN Ret(TRUE, "Domain resolves (MX check unavailable)")
    ELSE IF h = "gaierror" THEN Ret(FALSE, "Domain does not resolve")
    ELSE Raise(h)

\* The call without its outer handler
OuterExcept_Missing(r) == r

\* lines 169-171: the outer except Exception
OuterExcept(r) ==
    IF r.kind = "raise" THEN Ret(FALSE, "MX check error: ") ELSE r

\* The call without the outer try of lines 136-171
check_domain_mx_records_NoOuterTry(available, o, a, h) ==
    IF available THEN InnerExcept(MxAttempt(o), a) ELSE HostAttempt(h)

\* The whole call, run alone: available is whether dnspython imports, o, a
\* and h what the MX, A and hostname lookups report when they are made.
check_domain_mx_records(available, o, a, h) ==
    OuterExcept(IF available THEN InnerExcept(MxAttempt(o), a) ELSE HostAttempt(h))

(***************************************************************************)
(* check_domain_matches_brand: (matches, confidence, reasoning).           *)
(***************************************************************************)
BrandDomain(email) == Lower(RSplitTail(email, "@"))
BrandLower(brand_name) == Strip(Lower(brand_name))
DomainWithoutTld(domain) == RSplitHead(domain, ".")

\* line 198
BrandExact(email, brand_name) ==
    BrandLower(brand_name) = DomainWithoutTld(BrandDomain(email))

\* line 202
BrandContains(email, brand_name) ==
    Contains(RemoveChar(RemoveChar(BrandDomain(email), "-"), "."),
             BrandLower(brand_name))

\* lines 206-215
BrandVariations(brand_lower) ==
    { brand_lower, RemoveChar(brand_lower, " "),
      ReplaceChar(brand_lower, " ", "-"), RemoveChar(brand_lower, ".") }

BrandVariation(email, brand_name) ==
    \E variation \in BrandVariations(BrandLower(brand_name)) :
        Contains(DomainWithoutTld(BrandDomain(email)), variation)

BrandResult(matches, confidence, reasoning) ==
    [matches |-> matches, confidence |-> confidence, reasoning |-> reasoning]

\* The matcher with the contains tier tried before the exact tier
check_domain_matches_brand_ContainsFirst(email, brand_name) ==
    IF ~HasChar(email, "@") \/ Len(brand_name) = 0
    THEN BrandResult(FALSE, 0, "Invalid email or brand name")
    ELSE IF BrandContains(email, brand_name)
    THEN BrandResult(TRUE, 90, "Domain contains brand")
    ELSE IF BrandExact(email, brand_name)
    THEN BrandResult(TRUE, 100, "Domain exactly matches brand")
    ELSE IF BrandVariation(email, brand_name)
    THEN BrandResult(TRUE, 80, "Domain contains brand variation")
    ELSE BrandResult(FALSE, 0, "Domain does not appear to match brand")

check_domain_matches_brand(email, brand_name) ==
    IF ~HasChar(email, "@") \/ Len(brand_name) = 0
    THEN BrandResult(FALSE, 0, "Invalid email or brand name")
    ELSE IF BrandExact(email, brand_name)
    THEN BrandResult(TRUE, 100, "Domain exactly matches brand")
    ELSE IF BrandContains(email, brand_name)
    THEN BrandResult(TRUE, 90, "Domain contains brand")
    ELSE IF BrandVariation(email, brand_name)
    THEN BrandResult(TRUE, 80, "Domain contains brand variation")
    ELSE BrandResult(FALSE, 0, "Domain does not appear to match brand")

(***************************************************************************)
(* detect_suspicious_patterns: (flags, penalty), the penalty in hundredths.*)
(***************************************************************************)
CountIn(s, class) == Cardinality({i \in 1..Len(s) : s[i] \in class})

\* line 282: ^\d{1,3}\.\d{1,3}\.\d{1,3}\.\d{1,3}$ from the start of s
RECURSIVE IpGroups(_, _)
IpGroups(s, n) ==
    \E k \in 1..3 :
        /\ Len(s) >= k
        /\ AllIn(SubSeq(s, 1, k), Digits)
        /\ IF n = 1
           THEN Len(s) = k \/ (Len(s) = k + 1 /\ s[k + 1] = "\n")
           ELSE /\ Len(s) > k
                /\ s[k + 1] = "."
                /\ IpGroups(SubSeq(s, k + 2, Len(s)), n - 1)

IsIpLiteral(domain) == IpGroups(domain, 4)

\* lines 259-263: more than 4 letters, fewer than 15 in 100 of them vowels
LowVowelRatio(domain_no_tld) ==
    LET letters == SelectSeq(RemoveChar(domain_no_tld, "-"),
                             LAMBDA c : c \in Letters)
    IN  Len(letters) > 4 /\ 100 * CountIn(letters, Vowels) < 15 * Len(letters)

\* Every weight twice as heavy
Heuristic_Doubled(cond, flag, weight) ==
    IF cond THEN [flags |-> <<flag>>, penalty |-> 2 * weight]
    ELSE [flags |-> <<>>, penalty |-> 0]

\* One heuristic: its flag and its weight when it triggers
Heuristic(cond, flag, weight) ==
    IF cond THEN [flags |-> <<flag>>, penalty |-> weight]
    ELSE [flags |-> <<>>, penalty |-> 0]

Heuristics(email) ==
    LET local_lower == Lower(RSplitHead(email, "@"))
        domain == RSplitTail(email, "@")
        domain_lower == Lower(domain)
        tld == IF HasChar(domain_lower, ".") THEN RSplitTail(domain_lower, ".")
               ELSE <<>>
        domain_no_tld == IF HasChar(domain_lower, ".")
                         THEN RSplitHead(domain_lower, ".") ELSE domain
    IN  << Heuristic(domain_lower \in FREE_EMAIL_PROVIDERS,
                     "Free email provider", 40),
           Heuristic(tld \in SUSPICIOUS_TLDS, "Suspicious TLD", 30),
           Heuristic(CountIn(domain_no_tld, Digits) > 3,
                     "Domain contains many numbers", 20),
           Heuristic(LowVowelRatio(domain_no_tld),
                     "Domain appears random (low vowel ratio)", 15),
           Heuristic(StartsWith(local_lower, <<"n", "o", "-", "r", "e", "p", "l", "y">>)
                     \/ StartsWith(local_lower, <<"n", "o", "r", "e", "p", "l", "y">>),
                     "No-reply address unlikely to be support contact", 10),
           Heuristic(StartsWith(local_lower, <<"a", "d", "m", "i", "n">>)
                     \/ StartsWith(local_lower,
                            <<"p", "o", "s", "t", "m", "a", "s", "t", "e", "r">>),
                     "Administrative address unlikely to be support contact", 5),
           Heuristic(Len(email) > 100, "Unusually long email address", 10),
           Heuristic(IsIpLiteral(domain), "Domain is an IP address", 50) >>

RECURSIVE SumPenalty(_)
SumPenalty(hs) == IF Len(hs) = 0 THEN 0 ELSE hs[1].penalty + SumPenalty(Tail(hs))

RECURSIVE AllFlags(_)
AllFlags(hs) == IF Len(hs) = 0 THEN <<>> ELSE hs[1].flags \o AllFlags(Tail(hs))

\* line 288: min(penalty, 1.0)
CapPenalty(penalty) == IF penalty < 100 THEN penalty ELSE 100

\* The heuristics run on an input without "@" as well
detect_suspicious_patterns_NoShortCircuit(email) ==
    [flags |-> AllFlags(Heuristics(email)),
     penalty |-> CapPenalty(SumPenalty(Heuristics(email)))]

detect_suspicious_patterns(email) ==
    IF ~HasChar(email, "@")
    THEN [flags |-> <<"Invalid email format">>, penalty |-> 100]
    ELSE [flags |-> AllFlags(Heuristics(email)),
          penalty |-> CapPenalty(SumPenalty(Heuristics(email)))]

(***************************************************************************)
(* calculate_validation_score: the score in millionths.  confidence and    *)
(* penalty are hundredths: 0.5 is 5000 hundredths-of-hundredths, and the   *)
(* product with (100 - penalty) is a number of millionths.                 *)
(***************************************************************************)
\* The score left as computed
ClampScore_None(score) == score

\* line 328: max(0.0, min(1.0, score))
ClampScore(score) ==
    IF score < 0 THEN 0 ELSE IF score > 1000000 THEN 1000000 ELSE score

\* The score with the brand weight given to the domain as well
RawScore_DomainWeight(domain_exists, domain_matches_brand, brand_match_confidence, suspicion_penalty) ==
    (5000 + (IF domain_exists THEN 3000 ELSE 0)
          + (IF domain_matches_brand THEN 30 * brand_match_confidence ELSE 0))
    * (100 - suspicion_penalty)

\* lines 314-325
RawScore(domain_exists, domain_matches_brand, brand_match_confidence, suspicion_penalty) ==
    (5000 + (IF domain_exists THEN 2000 ELSE 0)
          + (IF domain_matches_brand THEN 30 * brand_match_confidence ELSE 0))
    * (100 - suspicion_penalty)

\* The score without the format guard of lines 310-311
calculate_validation_score_NoFormatGuard(format_valid, domain_exists, domain_matches_brand, brand_match_confidence, suspicion_penalty) ==
    ClampScore(RawScore(domain_exists, domain_matches_brand,
                        brand_match_confidence, suspicion_penalty))

calculate_validation_score(format_valid, domain_exists, domain_matches_brand, brand_match_confidence, suspicion_penalty) ==
    IF ~format_valid THEN 0
    ELSE ClampScore(RawScore(domain_exists, domain_matches_brand,
                             brand_match_confidence, suspicion_penalty))

(***************************************************************************)
(* validate_email: the report.  mx is what check_domain_mx_records gives   *)
(* when validate_email calls it; validate_email has no try of its own.     *)
(***************************************************************************)
\* The verdict with a strict comparison
IsValidVerdict_Strict(format_valid, validation_score) ==
    format_valid /\ validation_score > 300000

\* line 442
IsValidVerdict(format_valid, validation_score) ==
    format_valid /\ validation_score >= 300000

\* lines 445-452: the message's first part
ScoreMessage(format_valid, format_issues, validation_score) ==
    IF ~format_valid THEN <<"Invalid email format: ">> \o format_issues
    ELSE IF validation_score >= 700000 THEN <<"Email appears legitimate">>
    ELSE IF validation_score >= 400000
         THEN <<"Email may be valid but has concerns">>
    ELSE <<"Email has significant concerns">>

\* Every flag appended to the message
Concerns_All(suspicion_flags) ==
    IF Len(suspicion_flags) = 0 THEN <<>>
    ELSE <<". Concerns: ">> \o suspicion_flags

\* lines 454-455: suspicion_flags[:3]
Concerns(suspicion_flags) ==
    IF Len(suspicion_flags) = 0 THEN <<>>
    ELSE <<". Concerns: ">>
         \o SubSeq(suspicion_flags, 1,
                   IF Len(suspicion_flags) < 3 THEN Len(suspicion_flags) ELSE 3)

\* lines 374-388
EmptyEmailReport ==
    [ is_valid |-> FALSE,
      format_valid |-> FALSE,
      format_issues |-> <<"Email is empty or missing">>,
      domain_exists |-> FALSE,
      domain_check_message |-> "Skipped - invalid email",
      domain_matches_brand |-> FALSE,
      brand_match_confidence |-> 0,
      brand_match_reasoning |-> "Skipped - invalid email",
      suspicion_flags |-> <<>>,
      suspicion_penalty |-> 0,
      validation_score |-> 0,
      message |-> <<"Error: email is required and cannot be empty.">> ]

\* The resolver called for every well-formed address, check_mx or not
ResolverCalled_IgnoresCheckMx(format_valid, check_mx) == format_valid

\* line 414: if format_valid and check_mx
ResolverCalled(format_valid, check_mx) == format_valid /\ check_mx

\* Whether validate_email reaches the resolver call of line 416 for this input
CallsResolver(email, check_mx) ==
    /\ Len(email) # 0
    /\ Len(Strip(email)) # 0
    /\ ResolverCalled(check_email_format(Lower(Strip(email))).valid, check_mx)

\* lines 420-427
BrandStep(email_clean, brand_name, format_valid) ==
    IF Len(brand_name) # 0 /\ Len(Strip(brand_name)) # 0 /\ format_valid
    THEN check_domain_matches_brand(email_clean, brand_name)
    ELSE BrandResult(FALSE, 0, "Skipped - no brand name provided")

validate_email(email, brand_name, check_mx, mx) ==
    IF Len(email) = 0 \/ Len(Strip(email)) = 0
    THEN [kind |-> "return", report |-> EmptyEmailReport, mx_calls |-> <<>>]
    ELSE
    LET email_clean == Lower(Strip(email))
        fmt == check_email_format(email_clean)
        domain == RSplitTail(email_clean, "@")
        called == ResolverCalled(fmt.valid, check_mx)
        domain_exists == IF called THEN mx.exists ELSE FALSE
        domain_check_message ==
            IF called THEN mx.detail
            ELSE IF fmt.valid THEN "Skipped - MX check disabled"
            ELSE "Skipped"
        brand == BrandStep(email_clean, brand_name, fmt.valid)
        susp == detect_suspicious_patterns(email_clean)
        validation_score ==
            calculate_validation_score(fmt.valid, domain_exists, brand.matches,
                                       brand.confidence, susp.penalty)
    IN  IF called /\ mx.kind = "raise"
        THEN [kind |-> "raise", exc |-> mx.exc, mx_calls |-> <<domain>>]
        ELSE [ kind |-> "return",
               mx_calls |-> IF called THEN <<domain>> ELSE <<>>,
               report |->
                 [ is_valid |-> IsValidVerdict(fmt.valid, validation_score),
                   format_valid |-> fmt.valid,
                   format_issues |-> fmt.issues,
                   domain_exists |-> domain_exists,
                   domain_check_message |-> domain_check_message,
                   domain_matches_brand |-> brand.matches,
                   brand_match_confidence |-> brand.confidence,
                   brand_match_reasoning |-> brand.reasoning,
                   suspicion_flags |-> susp.flags,
                   suspicion_penalty |-> susp.penalty,
                   validation_score |-> validation_score,
                   message |-> ScoreMessage(fmt.valid, fmt.issues, validation_score)
                               \o Concerns(susp.flags) ] ]

(***************************************************************************)
(* web_search.py: extract_emails_from_text.                                *)
(***************************************************************************)
\* The end of the longest run of characters of class that starts at i
\* (i - 1 when t[i] is not in class)
RunEnd(t, i, class) ==
    SetMax({i - 1} \cup {j \in i..Len(t) : AllIn(SubSeq(t, i, j), class)})

\* The last index of the match of EMAIL_PATTERN that starts at i, 0 when
\* there is none: the local part runs greedily up to "@", the domain
\* backtracks to its last "." that two letters follow, the letters run on.
MatchEndAt(t, i) ==
    LET at == RunEnd(t, i, LocalClass) + 1
    IN  IF at = i \/ at > Len(t) \/ t[at] # "@" THEN 0
        ELSE LET dEnd == RunEnd(t, at + 1, DomainClass)
                 dots == {p \in (at + 2)..dEnd :
                             /\ t[p] = "."
                             /\ p + 2 <= Len(t)
                             /\ t[p + 1] \in Letters
                             /\ t[p + 2] \in Letters}
             IN  IF dots = {} THEN 0
                 ELSE RunEnd(t, SetMax(dots) + 1, Letters)

RECURSIVE FindAllFrom(_, _)
\* EMAIL_PATTERN.findall(t): the leftmost match, then on from its end
FindAllFrom(t, pos) ==
    LET starts == {i \in pos..Len(t) : MatchEndAt(t, i) > 0}
    IN  IF starts = {} THEN <<>>
        ELSE LET i == SetMin(starts)
                 e == MatchEndAt(t, i)
             IN  <<SubSeq(t, i, e)>> \o FindAllFrom(t, e + 1)

FindAll(t) == FindAllFrom(t, 1)

InSeq(x, s) == \E i \in 1..Len(s) : s[i] = x

\* The test made on the address as found, not on its lower-case form
AlreadySeen_Raw(email, email_lower, unique_emails) == InSeq(email, unique_emails)

\* line 42: the test that keeps an address out of unique_emails
AlreadySeen(email, email_lower, unique_emails) == InSeq(email_lower, unique_emails)

RECURSIVE UniqueLower(_, _)
\* lines 38-44: the loop over the matches
UniqueLower(matches, unique_emails) ==
    IF Len(matches) = 0 THEN unique_emails
    ELSE LET email == Head(matches)
             email_lower == Lower(email)
         IN  UniqueLower(Tail(matches),
                         IF AlreadySeen(email, email_lower, unique_emails)
                         THEN unique_emails
                         ELSE Append(unique_emails, email_lower))

extract_emails_from_text(text) ==
    IF Len(text) = 0 THEN <<>> ELSE UniqueLower(FindAll(text), <<>>)

\* web_search.py lines 49-84: EMAIL_PATTERN.fullmatch on the address as it
\* is given, then the rules on the local part and on the domain
validate_email_format(email) ==
    LET local_part == RSplitHead(email, "@")
        domain == RSplitTail(email, "@")
    IN  /\ Len(email) # 0
        /\ FullMatch(email)
        /\ ~(Len(local_part) < 1 \/ Len(local_part) > 64)
        /\ ~(StartsWith(local_part, <<".">>) \/ EndsWith(local_part, <<".">>))
        /\ ~Contains(local_part, <<".", ".">>)
        /\ ~(Len(domain) < 3 \/ Len(domain) > 255)
        /\ ~(StartsWith(domain, <<".">>) \/ StartsWith(domain, <<"-">>))
        /\ ~EndsWith(domain, <<"-">>)

(***************************************************************************)
(* supabase_client.py: the client singleton.  A client instance is named   *)
(* by the order of its creation; NoClient is Python's None.                *)
(***************************************************************************)
Client(n) == [instance |-> n]
NoClient == Client(0)

\* What get_settings and create_client can do at lines 35-39
ConnectOutcomes == {"ok", "ValueError", "Exception"}

\* lines 21-51, run alone: the cached instance, or a new one that is cached;
\* both handlers raise SupabaseConnectionError and nothing is cached
get_supabase_client(cache, created, connect) ==
    IF cache # NoClient
    THEN [kind |-> "return", client |-> cache, lruCache |-> cache,
          clientsCreated |-> created]
    ELSE IF connect = "ok"
    THEN [kind |-> "return", client |-> Client(created + 1),
          lruCache |-> Client(created + 1), clientsCreated |-> created + 1]
    ELSE [kind |-> "raise", exc |-> "SupabaseConnectionError", lruCache |-> cache,
          clientsCreated |-> created]

\* lines 60-75, run alone
get_client(global, cache, created, connect) ==
    IF global # NoClient
    THEN [kind |-> "return", client |-> global, supabase_client |-> global,
          lruCache |-> cache, clientsCreated |-> created]
    ELSE LET r == get_supabase_client(cache, created, connect)
         IN  IF r.kind = "return"
             THEN [kind |-> "return", client |-> r.client,
                   supabase_client |-> r.client, lruCache |-> r.lruCache,
                   clientsCreated |-> r.clientsCreated]
             ELSE [kind |-> "raise", exc |-> r.exc, supabase_client |-> global,
                   lruCache |-> r.lruCache, clientsCreated |-> r.clientsCreated]

(***************************************************************************)
(* claim_status.py and db_search.py.  A JSON result is a record that has   *)
(* the keys the code gives it; a table call either answers or raises.      *)
(***************************************************************************)
UpperOf ==
    [c \in LowerLetters |-> UpperSeq[CHOOSE i \in 1..Len(LowerSeq) : LowerSeq[i] = c]]

\* str.upper()
Upper(s) == [i \in 1..Len(s) |-> IF s[i] \in LowerLetters THEN UpperOf[s[i]] ELSE s[i]]

\* `not s or not s.strip()`
IsBlank(s) == Len(s) = 0 \/ Len(Strip(s)) = 0

\* lines 20-26: the values of ClaimStatus
ClaimStatus ==
    { <<"P", "E", "N", "D", "I", "N", "G">>,
      <<"S", "U", "B", "M", "I", "T", "T", "E", "D">>,
      <<"F", "A", "I", "L", "E", "D">>,
      <<"R", "E", "Q", "U", "I", "R", "E", "S", "_", "R", "E", "V", "I", "E", "W">> }

\* SQL NULL and Python None, for a text column and for a number column
Null == <<"null">>
NullScore == 0 - 1

\* What .execute() can do, and what a select can also hand back
ExecOutcomes == {"ok", "raise"}
SelectOutcomes == {"ok", "raise", "not_a_dict"}

\* The state a call leaves behind, for a call that only used the client
ClientOnly(c) ==
    [ warranty_claims |-> warranty_claims,
      claim_status_history |-> claim_status_history,
      changedRows |-> changedRows,
      clock |-> clock,
      supabase_client |-> c.supabase_client,
      lruCache |-> c.lruCache,
      clientsCreated |-> c.clientsCreated ]

\* The state a call leaves behind when it returns before get_client
Untouched ==
    [ warranty_claims |-> warranty_claims,
      claim_status_history |-> claim_status_history,
      changedRows |-> changedRows,
      clock |-> clock,
      supabase_client |-> supabase_client,
      lruCache |-> lruCache,
      clientsCreated |-> clientsCreated ]

\* The handler's result without its "error" key
ConnectionErrorResult_NoErrorKey(flag, rest) ==
    [k \in {flag, "message"} \cup DOMAIN rest |->
        IF k = flag THEN FALSE
        ELSE IF k = "message" THEN "Database connection error: "
        ELSE rest[k]]

\* lines 166-175 and their like: except SupabaseConnectionError
ConnectionErrorResult(flag, rest) ==
    [k \in {flag, "message", "error"} \cup DOMAIN rest |->
        IF k = flag THEN FALSE
        ELSE IF k = "message" THEN "Database connection error: "
        ELSE IF k = "error" THEN TRUE
        ELSE rest[k]]

\* lines 177-186 and their like: except Exception
GenericErrorResult(flag, message, rest) ==
    [k \in {flag, "message", "error"} \cup DOMAIN rest |->
        IF k = flag THEN FALSE
        ELSE IF k = "message" THEN message
        ELSE IF k = "error" THEN TRUE
        ELSE rest[k]]

\* lines 110-123: the columns the update sets
\* An update that writes every optional column, given a value or not
UpdatedRow_Overwrites(row, validated_status, now, support_email_used, confidence_score, judge_reasoning) ==
    [ status |-> validated_status,
      updated_at |-> now,
      created_at |-> row.created_at,
      support_email_used |-> Strip(support_email_used),
      confidence_score |-> confidence_score,
      judge_reasoning |-> Strip(judge_reasoning) ]

UpdatedRow(row, validated_status, now, support_email_used, confidence_score, judge_reasoning) ==
    [ status |-> validated_status,
      updated_at |-> now,
      created_at |-> row.created_at,
      support_email_used |->
          IF ~IsBlank(support_email_used) THEN Strip(support_email_used)
          ELSE row.support_email_used,
      confidence_score |->
          IF confidence_score > 0 THEN confidence_score ELSE row.confidence_score,
      judge_reasoning |->
          IF ~IsBlank(judge_reasoning) THEN Strip(judge_reasoning)
          ELSE row.judge_reasoning ]

\* lines 139-148: the history row; created_by is the user_id of a
\* tool_context, which these calls do not pass
HistoryData(id, validated_status, now, support_email_used, confidence_score, judge_reasoning) ==
    [ claim_id |-> id,
      status |-> validated_status,
      support_email_used |->
          IF Len(support_email_used) # 0 THEN Strip(support_email_used) ELSE Null,
      confidence_score |->
          IF confidence_score > 0 THEN confidence_score ELSE NullScore,
      judge_reasoning |->
          IF Len(judge_reasoning) # 0 THEN Strip(judge_reasoning) ELSE Null,
      created_at |-> now,
      created_by |-> Null ]

\* Every status taken for a value of ClaimStatus
IsClaimStatus_Any(value) == TRUE

\* lines 76-78: ClaimStatus(value) raises ValueError for any other value
IsClaimStatus(value) == value \in ClaimStatus

\* lines 29-186.  connect, upd and ins are what get_client, the update's
\* execute and the insert's execute do when the call reaches them.
update_claim_status(claim_id, status, support_email_used, confidence_score, judge_reasoning, connect, upd, ins) ==
    LET id == Strip(claim_id)
        validated_status == Upper(status)
        c == get_client(supabase_client, lruCache, clientsCreated, connect)
        now == clock + 1
        found == id \in DOMAIN warranty_claims
        afterUpdate ==
            IF upd = "ok" /\ found
            THEN [ ClientOnly(c) EXCEPT
                     !.clock = now,
                     !.warranty_claims =
                         [warranty_claims EXCEPT ![id] =
                             UpdatedRow(@, validated_status, now, support_email_used,
                                        confidence_score, judge_reasoning)],
                     !.changedRows =
                         Append(changedRows,
                                [claim_id |-> id, status |-> validated_status,
                                 at |-> now]) ]
            ELSE [ClientOnly(c) EXCEPT !.clock = now]
        afterInsert ==
            IF ins = "ok"
            THEN [ afterUpdate EXCEPT
                     !.claim_status_history =
                         Append(claim_status_history,
                                HistoryData(id, validated_status, now,
                                            support_email_used, confidence_score,
                                            judge_reasoning)) ]
            ELSE afterUpdate
    IN  IF IsBlank(claim_id)
        THEN [ json |-> [ success |-> FALSE, claim_id |-> <<>>, status |-> <<>>,
                          message |-> "Error: claim_id is required and cannot be empty." ],
               state |-> Untouched ]
        ELSE IF ~IsClaimStatus(validated_status)
        THEN [ json |-> [ success |-> FALSE, claim_id |-> claim_id, status |-> status,
                          message |-> "Error: Invalid status" ],
               state |-> Untouched ]
        ELSE IF c.kind = "raise"
        THEN [ json |-> ConnectionErrorResult("success",
                            [claim_id |-> id, status |-> <<>>]),
               state |-> ClientOnly(c) ]
        ELSE IF upd = "raise"
        THEN [ json |-> GenericErrorResult("success", "Error updating claim status: ",
                            [claim_id |-> id, status |-> <<>>]),
               state |-> afterUpdate ]
        ELSE IF ~found
        THEN [ json |-> [ success |-> FALSE, claim_id |-> id,
                          status |-> validated_status,
                          message |-> "Claim not found" ],
               state |-> afterUpdate ]
        ELSE IF ins = "raise"
        THEN [ json |-> GenericErrorResult("success", "Error updating claim status: ",
                            [claim_id |-> id, status |-> <<>>]),
               state |-> afterInsert ]
        ELSE [ json |-> [ success |-> TRUE, claim_id |-> id,
                          status |-> validated_status, updated_at |-> now,
                          message |-> "Claim status updated" ],
               state |-> afterInsert ]

\* lines 29-36: the parameters of update_claim_status
Parameters ==
    { "claim_id", "status", "support_email_used", "confidence_score",
      "judge_reasoning", "tool_context" }

\* agent.py lines 94-100 and test_tools.py lines 855-863: the keyword
\* arguments of the HUMAN_REVIEW flow's call
HumanReviewKeywords ==
    { "claim_id", "status", "confidence_score", "judge_reasoning",
      "attempted_emails", "pending_reason" }

\* test_tools.py lines 898-904: those of the REQUIRES_REVIEW flow's call
RequiresReviewKeywords ==
    { "claim_id", "status", "confidence_score", "judge_reasoning" }

\* lines 29-36, called with keyword arguments: a keyword that names no
\* parameter raises TypeError before the body runs; support_email_used,
\* which neither call passes, takes its default.
update_claim_status_keywords(keywords, claim_id, status, confidence_score, judge_reasoning, connect, upd, ins) ==
    IF ~(keywords \subseteq Parameters)
    THEN [ json |-> Raise("TypeError"), state |-> Untouched ]
    ELSE update_claim_status(claim_id, status, <<>>, confidence_score,
                             judge_reasoning, connect, upd, ins)

Reverse(s) == [i \in 1..Len(s) |-> s[Len(s) + 1 - i]]

\* lines 292-311: the history rows of a claim, the latest first
HistoryOf(id) ==
    LET rows == Reverse(SelectSeq(claim_status_history, LAMBDA h : h.claim_id = id))
    IN  [ i \in 1..Len(rows) |->
            [ status |-> rows[i].status,
              support_email_used |-> rows[i].support_email_used,
              confidence_score |-> rows[i].confidence_score,
              judge_reasoning |-> rows[i].judge_reasoning,
              created_at |-> rows[i].created_at,
              created_by |-> rows[i].created_by ] ]

\* lines 189-342.  sel and hist are what the two selects do when reached.
get_claim_status(claim_id, include_history, connect, sel, hist) ==
    LET id == Strip(claim_id)
        c == get_client(supabase_client, lruCache, clientsCreated, connect)
        none == [claim |-> Null, history |-> <<>>]
        row == warranty_claims[id]
        history == IF include_history THEN HistoryOf(id) ELSE <<>>
    IN  IF IsBlank(claim_id)
        THEN [ json |-> [ found |-> FALSE, claim |-> Null, history |-> <<>>,
                          message |-> "Error: claim_id is required and cannot be empty." ],
               state |-> Untouched ]
        ELSE IF c.kind = "raise"
        THEN [ json |-> ConnectionErrorResult("found", none), state |-> ClientOnly(c) ]
        ELSE IF sel = "raise"
        THEN [ json |-> GenericErrorResult("found", "Error retrieving claim status: ",
                                           none),
               state |-> ClientOnly(c) ]
        ELSE IF id \notin DOMAIN warranty_claims
        THEN [ json |-> [ found |-> FALSE, claim |-> Null, history |-> <<>>,
                          message |-> "Claim not found" ],
               state |-> ClientOnly(c) ]
        ELSE IF sel = "not_a_dict"
        THEN [ json |-> [ found |-> FALSE, claim |-> Null, history |-> <<>>,
                          message |-> "Error: Unexpected data format from database." ],
               state |-> ClientOnly(c) ]
        ELSE IF include_history /\ hist = "raise"
        THEN [ json |-> GenericErrorResult("found", "Error retrieving claim status: ",
                                           none),
               state |-> ClientOnly(c) ]
        ELSE [ json |-> [ found |-> TRUE,
                          claim |-> [ id |-> id,
                                      status |-> row.status,
                                      support_email_used |-> row.support_email_used,
                                      confidence_score |-> row.confidence_score,
                                      judge_reasoning |-> row.judge_reasoning,
                                      updated_at |-> row.updated_at,
                                      created_at |-> row.created_at ],
                          history |-> history,
                          message |-> IF Len(history) = 0 THEN <<"Found claim">>
                                      ELSE <<"Found claim", " with status change(s)">> ],
               state |-> ClientOnly(c) ]

\* lines 345-478.  The user, product and issue columns, which no tool
\* writes, are left out of the row and of the result.
get_claim_details(claim_id, connect, sel) ==
    LET id == Strip(claim_id)
        c == get_client(supabase_client, lruCache, clientsCreated, connect)
        row == warranty_claims[id]
    IN  IF IsBlank(claim_id)
        THEN [ json |-> [ found |-> FALSE, claim_id |-> <<>>,
                          message |-> "Error: claim_id is required and cannot be empty." ],
               state |-> Untouched ]
        ELSE IF c.kind = "raise"
        THEN [ json |-> ConnectionErrorResult("found", [claim_id |-> id]),
               state |-> ClientOnly(c) ]
        ELSE IF sel = "raise"
        THEN [ json |-> GenericErrorResult("found", "Error retrieving claim details: ",
                                           [claim_id |-> id]),
               state |-> ClientOnly(c) ]
        ELSE IF id \notin DOMAIN warranty_claims
        THEN [ json |-> [ found |-> FALSE, claim_id |-> id,
                          message |-> "Claim not found" ],
               state |-> ClientOnly(c) ]
        ELSE IF sel = "not_a_dict"
        THEN [ json |-> [ found |-> FALSE, claim_id |-> id,
                          message |-> "Error: Unexpected data format from database." ],
               state |-> ClientOnly(c) ]
        ELSE [ json |-> [ found |-> TRUE, claim_id |-> id, status |-> row.status,
                          created_at |-> row.created_at,
                          updated_at |-> row.updated_at,
                          message |-> "Found claim" ],
               state |-> ClientOnly(c) ]

\* The rows of the support_contacts table, which the tools only read
SupportContacts ==
    << [ brand_name |-> <<"S", "o", "n", "y">>, product_category |-> <<"T", "V">>,
         support_email |-> "support@sony.com", confidence_score |-> 95,
         source |-> "internal_db" ],
       [ brand_name |-> <<"S", "o", "n", "y", " ", "C", "o", "r", "p">>,
         product_category |-> <<"A", "u", "d", "i", "o">>,
         support_email |-> "audio@sony.com", confidence_score |-> 80,
         source |-> "internal_db" ] >>

\* ilike with "%" on both sides of the pattern
ILike(value, pattern) == Contains(Lower(value), Lower(pattern))

\* db_search.py lines 26-155.  ex is what the query's execute does.
search_support_contacts(brand_name, product_category, connect, ex) ==
    LET c == get_client(supabase_client, lruCache, clientsCreated, connect)
        rows == SelectSeq(SupportContacts,
                    LAMBDA r : /\ ILike(r.brand_name, Strip(brand_name))
                               /\ IsBlank(product_category)
                                  \/ ILike(r.product_category, Strip(product_category)))
    IN  IF IsBlank(brand_name)
        THEN [ json |-> [ found |-> FALSE, results |-> <<>>,
                          message |-> "Error: brand_name is required and cannot be empty." ],
               state |-> Untouched ]
        ELSE IF c.kind = "raise"
        THEN [ json |-> ConnectionErrorResult("found", [results |-> <<>>]),
               state |-> ClientOnly(c) ]
        ELSE IF ex = "raise"
        THEN [ json |-> GenericErrorResult("found", "Error searching support contacts: ",
                                           [results |-> <<>>]),
               state |-> ClientOnly(c) ]
        ELSE IF Len(rows) > 0
        THEN [ json |-> [ found |-> TRUE,
                          results |-> [ i \in 1..Len(rows) |->
                              [ brand_name |-> rows[i].brand_name,
                                support_email |-> rows[i].support_email,
                                confidence_score |-> rows[i].confidence_score,
                                source |-> rows[i].source ] ],
                          message |-> "Found support contact(s)" ],
               state |-> ClientOnly(c) ]
        ELSE [ json |-> [ found |-> FALSE, results |-> <<>>,
                          message |-> "No support contacts found" ],
               state |-> ClientOnly(c) ]

(***************************************************************************)
(* The inputs of the calls.  An address is a local part, "@" and a domain  *)
(* of up to MaxLabels labels, or one of the domains below, or any string   *)
(* of up to MaxRawLen characters of RawAlphabet; a text is up to MaxTokens *)
(* pieces, run together.                                                   *)
(***************************************************************************)
MaxLabels == 2
MaxRawLen == 3
MaxTokens == 3
MaxUpdates == 2
MaxClients == 2

RECURSIVE SeqsUpTo(_, _)
\* The sequences of at most n elements of S
SeqsUpTo(S, n) ==
    IF n = 0 THEN {<<>>}
    ELSE LET shorter == SeqsUpTo(S, n - 1)
         IN  shorter \cup {Append(q, x) : q \in shorter, x \in S}

RECURSIVE Flatten(_)
Flatten(pieces) ==
    IF Len(pieces) = 0 THEN <<>> ELSE Head(pieces) \o Flatten(Tail(pieces))

Labels ==
    { <<>>, <<"s", "o", "n", "y">>, <<"c", "o", "m">>, <<"x", "y", "z">>, <<"x", "1", "2", "3", "4", "5">> }

ExtraDomains ==
    FREE_EMAIL_PROVIDERS \cup
    { <<"s", "u", "p", "p", "o", "r", "t", ".", "s", "o", "n", "y", ".", "c", "o", "m">>,
      <<"s", "o", "n", "y", "-", "c", "o", "r", "p", ".", "c", "o", "m">>,
      <<"s", "o", "n", "y", "c", "o", "r", "p", ".", "c", "o", "m">>,
      <<"s", "o", "n", "y", ".", "c", "o", ".", "u", "k">>,
      <<"s", "o", "n", "y", ".", ".", "c", "o", "m">>,
      <<"b", "c", "d", "f", "g", "h", ".", "x", "y", "z">>,
      <<"x", "1", "2", "3", "4", "5", ".", "b", "c", "d", "f", "g", "h", ".", "x", "y", "z">>,
      <<"-", "a", ".", "c", "o", "m">>,
      <<"1", ".", "2", ".", "3", ".", "4">>,
      <<"1", "1", ".", "2", "2", ".", "3", ".", "4">>,
      <<"S", "O", "N", "Y", ".", "C", "O", "M">>,
      Repeat("a", 252) \o <<".", "c", "o", "m">> }

Domains ==
    {JoinDot(ls) : ls \in SeqsUpTo(Labels, MaxLabels) \ {<<>>}} \cup ExtraDomains

LocalParts ==
    { <<>>, <<"S", "u", "p", "p", "o", "r", "t">>, <<"n", "o", "r", "e", "p", "l", "y">>, <<"a", "d", "m", "i", "n">>,
      <<".", "a">>, <<"a", ".", ".", "b">>, Repeat("a", 65), Repeat("a", 101) }

\* Addresses with a further local part, or white space around them
ExtraEmails ==
    { <<"n", "o", "-", "r", "e", "p", "l", "y", "@", "s", "o", "n", "y", ".", "c", "o", "m">>,
      <<"p", "o", "s", "t", "m", "a", "s", "t", "e", "r", "@", "s", "o", "n", "y", ".", "x", "y", "z">>,
      <<"a", ".", "@", "s", "o", "n", "y", ".", "c", "o", "m">>,
      <<"a", "@", "b", "@", "s", "o", "n", "y", ".", "c", "o", "m">>,
      <<"a", "_", "b", "%", "c", "+", "d", "-", "e", "@", "s", ".", "o", ".", "c", "o", "m">>,
      <<" ">> \o <<"a", "@", "s", "o", "n", "y", ".", "c", "o", "m">> \o <<"\n">>,
      <<"\t">> \o <<"a", "@", "s", "o", "n", "y", ".", "c", "o", "m">>,
      <<" ", "\n">>,
      <<"a", "@", "A", "E", "I", "O", "U">>,
      <<"n", "o", "r", "e", "p", "l", "y">> \o Repeat("a", 90)
          \o <<"@", "1", "1", ".", "2", "2", ".", "3", ".", "4">>,
      <<"n", "o", "r", "e", "p", "l", "y">> \o Repeat("a", 90) \o <<"@">>
          \o <<"x", "1", "2", "3", "4", "5", ".", "b", "c", "d", "f", "g", "h", ".", "x", "y", "z">> }

RawAlphabet == {"a", "1", ".", "-", "@", " "}

Emails ==
    {l \o <<"@">> \o d : l \in LocalParts, d \in Domains}
    \cup SeqsUpTo(RawAlphabet, MaxRawLen)
    \cup ExtraEmails

Brands ==
    { <<>>, <<" ">>, <<"S", "o", "n", "y">>, <<"S", "o", "n", "y", " ", "C", "o", "r", "p">>,
      <<"a", "c", "m", "e">>, <<"s", ".", "o">>, <<"G", "m", "a", "i", "l">> }

Tokens ==
    { <<"a", "@", "b", ".", "c", "d">>, <<"A", "@", "B", ".", "C", "D">>, <<" ", "x", "@", "y", ".", "z", "z", " ">>, <<" ">>, <<".">>, <<"@">>, <<"q">> }

Texts == {Flatten(ps) : ps \in SeqsUpTo(Tokens, MaxTokens)}

\* The arguments of a direct call of calculate_validation_score: a caller
\* may pass any confidence and any penalty, also one outside 0.0 to 1.0
Confidences == {0, 50, 80, 90, 100}
Penalties == {5 * i : i \in (0 - 4)..24}

\* What check_domain_mx_records can give validate_email
MxResults ==
    {check_domain_mx_records(av, o, a, h) :
        av \in BOOLEAN, o \in MXOutcomes, a \in AOutcomes, h \in HostOutcomes}

Threads == {"t1", "t2"}

\* The claims table holds one claim; a call names it, with or without white
\* space around the id, or names no claim or one that does not exist
ClaimC1 == <<"c", "1">>
InitialClaims ==
    [ id \in {ClaimC1} |->
        [ status |-> <<"P", "E", "N", "D", "I", "N", "G">>,
          updated_at |-> 0,
          created_at |-> 0,
          support_email_used |-> <<"o", "l", "d", "@", "x", ".", "i", "o">>,
          confidence_score |-> 50,
          judge_reasoning |-> <<"o", "l", "d">> ] ]

ClaimIds == { <<>>, <<" ">>, ClaimC1, <<" ">> \o ClaimC1 \o <<"\n">>, <<"c", "9">> }

StatusArgs ==
    { <<"P", "E", "N", "D", "I", "N", "G">>,
      <<"s", "u", "b", "m", "i", "t", "t", "e", "d">>,
      <<"F", "a", "i", "l", "e", "d">>,
      <<"D", "O", "N", "E">>,
      <<" ", "F", "A", "I", "L", "E", "D">>,
      <<>> }

\* The optional arguments of update_claim_status: left out, or given
OptionalArgs ==
    { [ support_email_used |-> <<>>, confidence_score |-> 0, judge_reasoning |-> <<>> ],
      [ support_email_used |-> <<" ", "s", "@", "x", ".", "i", "o">>,
        confidence_score |-> 85,
        judge_reasoning |-> <<"o", "k", " ">> ] }

\* The calls of the two review flows: their keywords, status,
\* confidence_score and judge_reasoning
ReviewCalls ==
    { [ keywords |-> HumanReviewKeywords,
        status |-> <<"P", "E", "N", "D", "I", "N", "G">>,
        confidence_score |-> 65,
        judge_reasoning |-> <<"l", "o", "w">> ],
      [ keywords |-> RequiresReviewKeywords,
        status |-> <<"R", "E", "Q", "U", "I", "R", "E", "S", "_", "R", "E", "V", "I", "E", "W">>,
        confidence_score |-> 0,
        judge_reasoning |-> <<"n", "o", "n", "e">> ] }

Categories == { <<>>, <<"t", "v">> }
Timeouts == {"5.0", "1.0"}
NoTimeout == "None"

(***************************************************************************)
(* The agents of the workflow (agent.py, sub_agents/): the orchestrator,   *)
(* the parallel search pipeline, the sequential search-and-judge pipeline  *)
(* and the decision rules the judge's and the orchestrator's instructions  *)
(* state.  A SequentialAgent runs its sub_agents one after another, each   *)
(* to its end; a ParallelAgent starts its sub_agents together and ends     *)
(* when all have ended; an LlmAgent's final response is written to the     *)
(* session state under its output_key.                                     *)
(***************************************************************************)
Root == "clara_care_orchestrator"
LlmAgents ==
    { Root, "db_search_agent", "web_search_agent", "judge_agent", "writer_agent" }

\* the output_key of each LlmAgent definition
output_key ==
    [ db_search_agent |-> "internal_search_result",
      web_search_agent |-> "web_search_result",
      judge_agent |-> "judge_verdict",
      writer_agent |-> "composed_email" ]

StateKeys == { output_key[a] : a \in DOMAIN output_key }
Unset == [unset |-> TRUE]

\* search_pipeline/agent.py lines 36-39: the sub_agents of the ParallelAgent
search_pipeline == << "db_search_agent", "web_search_agent" >>

\* The judge placed before the searches
search_judge_pipeline_JudgeFirst == << "judge_agent", "search_pipeline" >>

\* search_judge_pipeline/agent.py lines 47-50: those of the SequentialAgent
search_judge_pipeline == << "search_pipeline", "judge_agent" >>

\* An agent of the pipeline has run to its end
Finished(name) ==
    IF name = "search_pipeline"
    THEN \A i \in 1..Len(search_pipeline) : agentPc[search_pipeline[i]] = "finished"
    ELSE agentPc[name] = "finished"

\* SequentialAgent: a sub-agent's turn comes when those before it have ended
TurnOf(name) ==
    \E i \in 1..Len(search_judge_pipeline) :
        /\ search_judge_pipeline[i] = name
        /\ \A j \in 1..(i - 1) : Finished(search_judge_pipeline[j])

\* config.py line 33: the default of settings.confidence_threshold
DefaultThreshold == 80

\* judge_agent/agent.py lines 61-64: the threshold of the judge's instruction
JudgeThreshold == 80

\* judge_agent/agent.py lines 59-64: the decision of a verdict
JudgeDecision(confidence_score) ==
    IF confidence_score >= JudgeThreshold THEN "AUTO_SUBMIT" ELSE "HUMAN_REVIEW"

\* agent.py lines 276-293: the values the root instruction is formatted with
build_root_instruction(settings_confidence_threshold) ==
    [ confidence_threshold |-> settings_confidence_threshold,
      confidence_threshold_percent |-> settings_confidence_threshold ]

\* agent.py lines 57-110: step 3 of the root instruction, the flow of a
\* verdict: no recommended email, at or above the threshold, below it
RootFlow(verdict, instruction) ==
    IF ~verdict.has_email THEN "REQUIRES_REVIEW"
    ELSE IF verdict.confidence_score >= instruction.confidence_threshold
    THEN "AUTO_SUBMIT"
    ELSE "HUMAN_REVIEW"

\* Configured thresholds and the confidence scores of verdicts, in hundredths
Thresholds == { 70, DefaultThreshold, 90 }
VerdictScores == { 65, 75, 80, 85, 95 }

(***************************************************************************)
(* Spec: a caller that calls the tool functions one after another.  Each   *)
(* action is one whole call; Return takes the caller back to idle.         *)
(***************************************************************************)
NoCall == [none |-> TRUE]

MxIdle ==
    /\ tpc = [t \in Threads |-> "idle"]
    /\ timeoutArg = [t \in Threads |-> NoTimeout]
    /\ originalTimeout = [t \in Threads |-> NoTimeout]
    /\ socketDefault = NoTimeout
    /\ lookups = [t \in Threads |-> <<>>]
    /\ mxResult = [t \in Threads |-> NoCall]

DbIdle ==
    /\ warranty_claims = InitialClaims
    /\ claim_status_history = <<>>
    /\ changedRows = <<>>
    /\ clock = 0
    /\ supabase_client = NoClient
    /\ lruCache = NoClient
    /\ clientsCreated = 0
    /\ gpc = [t \in Threads |-> "idle"]
    /\ gLocal = [t \in Threads |-> NoClient]
    /\ gResult = [t \in Threads |-> NoCall]

FlowIdle ==
    /\ agentPc = [a \in LlmAgents |-> "waiting"]
    /\ session_state = [k \in StateKeys |-> Unset]
    /\ judgeInput = Unset
    /\ route = "none"

Init ==
    /\ pc = "idle"
    /\ op = "none"
    /\ args = NoCall
    /\ result = NoCall
    /\ dnsAvailable = TRUE
    /\ MxIdle
    /\ DbIdle
    /\ FlowIdle
    /\ confidence_threshold = DefaultThreshold

Returns(name, a, r) ==
    /\ pc' = "returned"
    /\ op' = name
    /\ args' = a
    /\ result' = r
    /\ UNCHANGED <<mxVars, dbVars, clientVars, flowVars>>

CallCheckEmailFormat ==
    /\ pc = "idle"
    /\ \E email \in Emails :
           Returns("check_email_format", [email |-> email], check_email_format(email))

CallCheckDomainMatchesBrand ==
    /\ pc = "idle"
    /\ \E email \in Emails, brand_name \in Brands :
           Returns("check_domain_matches_brand",
                   [email |-> email, brand_name |-> brand_name],
                   check_domain_matches_brand(email, brand_name))

CallDetectSuspiciousPatterns ==
    /\ pc = "idle"
    /\ \E email \in Emails :
           Returns("detect_suspicious_patterns", [email |-> email],
                   detect_suspicious_patterns(email))

CallCalculateValidationScore ==
    /\ pc = "idle"
    /\ \E format_valid \in BOOLEAN, domain_exists \in BOOLEAN,
          domain_matches_brand \in BOOLEAN,
          brand_match_confidence \in Confidences, suspicion_penalty \in Penalties :
           Returns("calculate_validation_score",
                   [ format_valid |-> format_valid,
                     domain_exists |-> domain_exists,
                     domain_matches_brand |-> domain_matches_brand,
                     brand_match_confidence |-> brand_match_confidence,
                     suspicion_penalty |-> suspicion_penalty ],
                   calculate_validation_score(format_valid, domain_exists,
                       domain_matches_brand, brand_match_confidence, suspicion_penalty))

\* The resolver answers only a call that is made: mx is NoCall otherwise.
CallValidateEmail ==
    /\ pc = "idle"
    /\ \E email \in Emails, brand_name \in Brands, check_mx \in BOOLEAN :
           \E mx \in IF CallsResolver(email, check_mx) THEN MxResults ELSE {NoCall} :
               Returns("validate_email",
                       [ email |-> email, brand_name |-> brand_name,
                         check_mx |-> check_mx, mx |-> mx ],
                       validate_email(email, brand_name, check_mx, mx))

CallExtractEmailsFromText ==
    /\ pc = "idle"
    /\ \E text \in Texts :
           Returns("extract_emails_from_text", [text |-> text],
                   extract_emails_from_text(text))

CallValidateEmailFormat ==
    /\ pc = "idle"
    /\ \E email \in Emails :
           Returns("validate_email_format", [email |-> email],
                   validate_email_format(email))

Return ==
    /\ pc = "returned"
    /\ pc' = "idle"
    /\ op' = "none"
    /\ args' = NoCall
    /\ result' = NoCall
    /\ UNCHANGED <<mxVars, dbVars, clientVars, flowVars>>

Next ==
    \/ CallCheckEmailFormat
    \/ CallCheckDomainMatchesBrand
    \/ CallDetectSuspiciousPatterns
    \/ CallCalculateValidationScore
    \/ CallValidateEmail
    \/ CallExtractEmailsFromText
    \/ CallValidateEmailFormat
    \/ Return

Spec == Init /\ [][Next]_vars

(***************************************************************************)
(* SpecMX: threads that call check_domain_mx_records at the same time.     *)
(* tpc is the line a thread is about to run; the socket default timeout is *)
(* the one process-wide variable the calls share.                          *)
(***************************************************************************)
InitMX ==
    /\ pc = "idle"
    /\ op = "none"
    /\ args = NoCall
    /\ result = NoCall
    /\ dnsAvailable \in BOOLEAN
    /\ MxIdle
    /\ DbIdle
    /\ FlowIdle
    /\ confidence_threshold = DefaultThreshold

Lookup(type, outcome) ==
    [type |-> type, outcome |-> outcome, timeout |-> socketDefault]

\* line 121: the call, with its timeout argument
MxCall(t) ==
    /\ tpc[t] = "idle"
    /\ \E timeout \in Timeouts : timeoutArg' = [timeoutArg EXCEPT ![t] = timeout]
    /\ tpc' = [tpc EXCEPT ![t] = "l131"]
    /\ UNCHANGED <<originalTimeout, socketDefault, dnsAvailable, lookups, mxResult>>
    /\ UNCHANGED <<toolVars, dbVars, clientVars, flowVars>>

\* line 131: original_timeout = socket.getdefaulttimeout()
MxSaveTimeout(t) ==
    /\ tpc[t] = "l131"
    /\ originalTimeout' = [originalTimeout EXCEPT ![t] = socketDefault]
    /\ tpc' = [tpc EXCEPT ![t] = "l134"]
    /\ UNCHANGED <<timeoutArg, socketDefault, dnsAvailable, lookups, mxResult>>
    /\ UNCHANGED <<toolVars, dbVars, clientVars, flowVars>>

\* line 134: socket.setdefaulttimeout(timeout)
MxSetTimeout(t) ==
    /\ tpc[t] = "l134"
    /\ socketDefault' = timeoutArg[t]
    /\ tpc' = [tpc EXCEPT ![t] = "l138"]
    /\ UNCHANGED <<timeoutArg, originalTimeout, dnsAvailable, lookups, mxResult>>
    /\ UNCHANGED <<toolVars, dbVars, clientVars, flowVars>>

\* line 138: import dns.resolver, or the ImportError of line 161
MxImport(t) ==
    /\ tpc[t] = "l138"
    /\ tpc' = [tpc EXCEPT ![t] = IF dnsAvailable THEN "l141" ELSE "l164"]
    /\ UNCHANGED <<timeoutArg, originalTimeout, socketDefault, dnsAvailable,
                   lookups, mxResult>>
    /\ UNCHANGED <<toolVars, dbVars, clientVars, flowVars>>

\* line 141: the MX lookup; every outcome but the fallback's returns
MxLookupMX(t) ==
    /\ tpc[t] = "l141"
    /\ \E o \in MXOutcomes :
        /\ lookups' = [lookups EXCEPT ![t] = Append(@, Lookup("MX", o))]
        /\ IF FallsBackToA(o)
           THEN /\ tpc' = [tpc EXCEPT ![t] = "l148"]
                /\ UNCHANGED mxResult
           ELSE /\ tpc' = [tpc EXCEPT ![t] = "l174"]
                /\ mxResult' = [mxResult EXCEPT ![t] =
                                   check_domain_mx_records(TRUE, o, "error", "gaierror")]
    /\ UNCHANGED <<timeoutArg, originalTimeout, socketDefault, dnsAvailable>>
    /\ UNCHANGED <<toolVars, dbVars, clientVars, flowVars>>

\* line 148: the A lookup of the fallback
MxLookupA(t) ==
    /\ tpc[t] = "l148"
    /\ \E a \in AOutcomes :
        /\ lookups' = [lookups EXCEPT ![t] = Append(@, Lookup("A", a))]
        /\ mxResult' = [mxResult EXCEPT ![t] =
                           check_domain_mx_records(TRUE, lookups[t][1].outcome, a,
                                                   "gaierror")]
    /\ tpc' = [tpc EXCEPT ![t] = "l174"]
    /\ UNCHANGED <<timeoutArg, originalTimeout, socketDefault, dnsAvailable>>
    /\ UNCHANGED <<toolVars, dbVars, clientVars, flowVars>>

\* line 164: socket.gethostbyname(domain)
MxLookupHost(t) ==
    /\ tpc[t] = "l164"
    /\ \E h \in HostOutcomes :
        /\ lookups' = [lookups EXCEPT ![t] = Append(@, Lookup("HOST", h))]
        /\ mxResult' = [mxResult EXCEPT ![t] =
                           check_domain_mx_records(FALSE, "records", "error", h)]
    /\ tpc' = [tpc EXCEPT ![t] = "l174"]
    /\ UNCHANGED <<timeoutArg, originalTimeout, socketDefault, dnsAvailable>>
    /\ UNCHANGED <<toolVars, dbVars, clientVars, flowVars>>

\* line 174: finally: socket.setdefaulttimeout(original_timeout)
MxRestore(t) ==
    /\ tpc[t] = "l174"
    /\ socketDefault' = originalTimeout[t]
    /\ tpc' = [tpc EXCEPT ![t] = "returned"]
    /\ UNCHANGED <<timeoutArg, originalTimeout, dnsAvailable, lookups, mxResult>>
    /\ UNCHANGED <<toolVars, dbVars, clientVars, flowVars>>

\* The caller takes the result; the call's locals are gone
MxReturn(t) ==
    /\ tpc[t] = "returned"
    /\ tpc' = [tpc EXCEPT ![t] = "idle"]
    /\ timeoutArg' = [timeoutArg EXCEPT ![t] = NoTimeout]
    /\ originalTimeout' = [originalTimeout EXCEPT ![t] = NoTimeout]
    /\ lookups' = [lookups EXCEPT ![t] = <<>>]
    /\ mxResult' = [mxResult EXCEPT ![t] = NoCall]
    /\ UNCHANGED <<socketDefault, dnsAvailable>>
    /\ UNCHANGED <<toolVars, dbVars, clientVars, flowVars>>

NextMX ==
    \E t \in Threads :
        \/ MxCall(t)
        \/ MxSaveTimeout(t)
        \/ MxSetTimeout(t)
        \/ MxImport(t)
        \/ MxLookupMX(t)
        \/ MxLookupA(t)
        \/ MxLookupHost(t)
        \/ MxRestore(t)
        \/ MxReturn(t)

SpecMX == InitMX /\ [][NextMX]_vars

(***************************************************************************)
(* SpecDB: a caller that calls the database tools one after another.  Each *)
(* action is one whole call, with what get_client and each table call do   *)
(* when the call reaches them; at most MaxUpdates calls read the clock.    *)
(***************************************************************************)
Commits(name, a, r) ==
    /\ r.state.clock <= MaxUpdates
    /\ pc' = "returned"
    /\ op' = name
    /\ args' = a
    /\ result' = r.json
    /\ warranty_claims' = r.state.warranty_claims
    /\ claim_status_history' = r.state.claim_status_history
    /\ changedRows' = r.state.changedRows
    /\ clock' = r.state.clock
    /\ supabase_client' = r.state.supabase_client
    /\ lruCache' = r.state.lruCache
    /\ clientsCreated' = r.state.clientsCreated
    /\ UNCHANGED <<gpc, gLocal, gResult>>
    /\ UNCHANGED <<mxVars, flowVars>>

CallUpdateClaimStatus ==
    /\ pc = "idle"
    /\ \E claim_id \in ClaimIds, status \in StatusArgs, opt \in OptionalArgs,
          connect \in ConnectOutcomes, upd \in ExecOutcomes, ins \in ExecOutcomes :
           Commits("update_claim_status",
                   [ claim_id |-> claim_id, status |-> status, opt |-> opt,
                     connect |-> connect, upd |-> upd, ins |-> ins ],
                   update_claim_status(claim_id, status, opt.support_email_used,
                       opt.confidence_score, opt.judge_reasoning, connect, upd, ins))

\* The calls the orchestrator's review flows make, by keyword
CallUpdateClaimStatusKeywords ==
    /\ pc = "idle"
    /\ \E call \in ReviewCalls, claim_id \in {ClaimC1, <<"c", "9">>},
          connect \in ConnectOutcomes, upd \in ExecOutcomes, ins \in ExecOutcomes :
           Commits("update_claim_status(**keywords)",
                   [ keywords |-> call.keywords, claim_id |-> claim_id,
                     status |-> call.status,
                     confidence_score |-> call.confidence_score,
                     judge_reasoning |-> call.judge_reasoning,
                     connect |-> connect, upd |-> upd, ins |-> ins ],
                   update_claim_status_keywords(call.keywords, claim_id, call.status,
                       call.confidence_score, call.judge_reasoning, connect, upd, ins))

CallGetClaimStatus ==
    /\ pc = "idle"
    /\ \E claim_id \in ClaimIds, include_history \in BOOLEAN,
          connect \in ConnectOutcomes, sel \in SelectOutcomes, hist \in ExecOutcomes :
           Commits("get_claim_status",
                   [ claim_id |-> claim_id, include_history |-> include_history,
                     connect |-> connect, sel |-> sel, hist |-> hist ],
                   get_claim_status(claim_id, include_history, connect, sel, hist))

CallGetClaimDetails ==
    /\ pc = "idle"
    /\ \E claim_id \in ClaimIds, connect \in ConnectOutcomes, sel \in SelectOutcomes :
           Commits("get_claim_details",
                   [claim_id |-> claim_id, connect |-> connect, sel |-> sel],
                   get_claim_details(claim_id, connect, sel))

CallSearchSupportContacts ==
    /\ pc = "idle"
    /\ \E brand_name \in Brands, product_category \in Categories,
          connect \in ConnectOutcomes, ex \in ExecOutcomes :
           Commits("search_support_contacts",
                   [ brand_name |-> brand_name, product_category |-> product_category,
                     connect |-> connect, ex |-> ex ],
                   search_support_contacts(brand_name, product_category, connect, ex))

NextDB ==
    \/ CallUpdateClaimStatus
    \/ CallUpdateClaimStatusKeywords
    \/ CallGetClaimStatus
    \/ CallGetClaimDetails
    \/ CallSearchSupportContacts
    \/ Return

SpecDB == Init /\ [][NextDB]_vars

(***************************************************************************)
(* SpecClient: threads that call get_client at the same time.  gpc is the  *)
(* step a thread is about to run; the module global and the lru_cache are  *)
(* shared.  At most MaxClients client instances are created.               *)
(***************************************************************************)
GcStep(t, to) ==
    /\ gpc' = [gpc EXCEPT ![t] = to]
    /\ UNCHANGED <<toolVars, mxVars, dbVars, flowVars>>

\* line 60: the call
GcCall(t) ==
    /\ gpc[t] = "idle"
    /\ GcStep(t, "l73")
    /\ UNCHANGED <<supabase_client, lruCache, clientsCreated, gLocal, gResult>>

\* line 73: if supabase_client is None
GcTestGlobal(t) ==
    /\ gpc[t] = "l73"
    /\ GcStep(t, IF supabase_client = NoClient THEN "l74" ELSE "l75")
    /\ UNCHANGED <<supabase_client, lruCache, clientsCreated, gLocal, gResult>>

\* line 74, the call: lru_cache answers from the cache or runs the function
GcCacheLookup(t) ==
    /\ gpc[t] = "l74"
    /\ IF lruCache # NoClient
       THEN /\ gLocal' = [gLocal EXCEPT ![t] = lruCache]
            /\ GcStep(t, "assign")
       ELSE /\ gLocal' = gLocal
            /\ GcStep(t, "l35")
    /\ UNCHANGED <<supabase_client, lruCache, clientsCreated, gResult>>

\* lines 34-51: the body of get_supabase_client makes a client or raises
GcCreate(t) ==
    /\ gpc[t] = "l35"
    /\ \E connect \in ConnectOutcomes :
        IF connect = "ok"
        THEN /\ clientsCreated < MaxClients
             /\ clientsCreated' = clientsCreated + 1
             /\ gLocal' = [gLocal EXCEPT ![t] = Client(clientsCreated + 1)]
             /\ gResult' = gResult
             /\ GcStep(t, "store")
        ELSE /\ gResult' = [gResult EXCEPT ![t] = Raise("SupabaseConnectionError")]
             /\ UNCHANGED <<clientsCreated, gLocal>>
             /\ GcStep(t, "returned")
    /\ UNCHANGED <<supabase_client, lruCache>>

\* line 21: lru_cache stores the result, unless the key was stored while
\* the function ran, and hands back the result the call computed
GcStore(t) ==
    /\ gpc[t] = "store"
    /\ lruCache' = IF lruCache = NoClient THEN gLocal[t] ELSE lruCache
    /\ GcStep(t, "assign")
    /\ UNCHANGED <<supabase_client, clientsCreated, gLocal, gResult>>

\* line 74, the assignment to the module global
GcAssign(t) ==
    /\ gpc[t] = "assign"
    /\ supabase_client' = gLocal[t]
    /\ GcStep(t, "l75")
    /\ UNCHANGED <<lruCache, clientsCreated, gLocal, gResult>>

\* line 75: return supabase_client
GcReturnGlobal(t) ==
    /\ gpc[t] = "l75"
    /\ gResult' = [gResult EXCEPT ![t] = [kind |-> "return", client |-> supabase_client]]
    /\ GcStep(t, "returned")
    /\ UNCHANGED <<supabase_client, lruCache, clientsCreated, gLocal>>

\* The caller takes the result and may call again
GcReturn(t) ==
    /\ gpc[t] = "returned"
    /\ gLocal' = [gLocal EXCEPT ![t] = NoClient]
    /\ gResult' = [gResult EXCEPT ![t] = NoCall]
    /\ GcStep(t, "idle")
    /\ UNCHANGED <<supabase_client, lruCache, clientsCreated>>

NextClient ==
    \E t \in Threads :
        \/ GcCall(t)
        \/ GcTestGlobal(t)
        \/ GcCacheLookup(t)
        \/ GcCreate(t)
        \/ GcStore(t)
        \/ GcAssign(t)
        \/ GcReturnGlobal(t)
        \/ GcReturn(t)

SpecClient == Init /\ [][NextClient]_vars

(***************************************************************************)
(* SpecFlow: the orchestrator processes one claim under a configured       *)
(* threshold.  The search agents run side by side; each agent's end is one *)
(* step, which writes its final response to the session state.             *)
(***************************************************************************)
InitFlow ==
    /\ pc = "idle"
    /\ op = "none"
    /\ args = NoCall
    /\ result = NoCall
    /\ dnsAvailable = TRUE
    /\ MxIdle
    /\ DbIdle
    /\ FlowIdle
    /\ confidence_threshold \in Thresholds

FlowStep(a, to) ==
    /\ agentPc' = [agentPc EXCEPT ![a] = to]
    /\ UNCHANGED <<toolVars, mxVars, dbVars, clientVars, confidence_threshold>>

\* agent.py lines 46-51: step 2, the orchestrator hands over to the pipeline
RootDelegate ==
    /\ agentPc[Root] = "waiting"
    /\ FlowStep(Root, "delegated")
    /\ UNCHANGED <<session_state, judgeInput, route>>

\* A search agent starts when the parallel pipeline's turn has come
SearchStart(a) ==
    /\ agentPc[Root] = "delegated"
    /\ agentPc[a] = "waiting"
    /\ TurnOf("search_pipeline")
    /\ FlowStep(a, "running")
    /\ UNCHANGED <<session_state, judgeInput, route>>

\* A search agent ends: its final response goes to its output_key
SearchFinish(a) ==
    /\ agentPc[a] = "running"
    /\ \E found \in BOOLEAN :
           session_state' = [session_state EXCEPT ![output_key[a]] =
                                [by |-> a, found |-> found]]
    /\ FlowStep(a, "finished")
    /\ UNCHANGED <<judgeInput, route>>

\* judge_agent/agent.py lines 22-24: the judge starts at its turn, and its
\* instruction takes the two placeholders' values from the session state
JudgeStart ==
    /\ agentPc[Root] = "delegated"
    /\ agentPc["judge_agent"] = "waiting"
    /\ TurnOf("judge_agent")
    /\ judgeInput' = [ internal_search_result |-> session_state["internal_search_result"],
                       web_search_result |-> session_state["web_search_result"] ]
    /\ FlowStep("judge_agent", "running")
    /\ UNCHANGED <<session_state, route>>

\* A search result the judge read that holds an email
Found(value) == value # Unset /\ value.found

\* judge_agent/agent.py lines 26-64: the verdict; an email is recommended
\* only from a search result, and the decision follows the score
JudgeFinish ==
    /\ agentPc["judge_agent"] = "running"
    /\ LET has_email == \/ Found(judgeInput.internal_search_result)
                         \/ Found(judgeInput.web_search_result)
       IN  \E confidence_score \in IF has_email THEN VerdictScores ELSE {0} :
               session_state' = [session_state EXCEPT !["judge_verdict"] =
                                    [ by |-> "judge_agent",
                                      confidence_score |-> confidence_score,
                                      has_email |-> has_email,
                                      decision |-> JudgeDecision(confidence_score) ]]
    /\ FlowStep("judge_agent", "finished")
    /\ UNCHANGED <<judgeInput, route>>

\* agent.py lines 57-130: step 3, once the pipeline has ended
RootRoute ==
    /\ agentPc[Root] = "delegated"
    /\ \A i \in 1..Len(search_judge_pipeline) : Finished(search_judge_pipeline[i])
    /\ route' = RootFlow(session_state["judge_verdict"],
                         build_root_instruction(confidence_threshold))
    /\ FlowStep(Root, "routed")
    /\ UNCHANGED <<session_state, judgeInput>>

\* agent.py lines 63-66: the AUTO_SUBMIT flow triggers the writer_agent
WriterRun ==
    /\ agentPc[Root] = "routed"
    /\ route = "AUTO_SUBMIT"
    /\ agentPc["writer_agent"] = "waiting"
    /\ session_state' = [session_state EXCEPT ![output_key["writer_agent"]] =
                            [by |-> "writer_agent"]]
    /\ FlowStep("writer_agent", "finished")
    /\ UNCHANGED <<judgeInput, route>>

NextFlow ==
    \/ RootDelegate
    \/ \E i \in 1..Len(search_pipeline) : SearchStart(search_pipeline[i])
    \/ \E i \in 1..Len(search_pipeline) : SearchFinish(search_pipeline[i])
    \/ JudgeStart
    \/ JudgeFinish
    \/ RootRoute
    \/ WriterRun

SpecFlow == InitFlow /\ [][NextFlow]_vars

(***************************************************************************)
(* The claims.                                                             *)
(***************************************************************************)
Reported == op = "validate_email" /\ result.kind = "return"

\* C1: calculate_validation_score returns 0.0 whenever format_valid is false,
\* whatever the other arguments are, and every report of validate_email with
\* format_valid false has validation_score 0.0.
C1_InvalidFormatScoresZero ==
    /\ (op = "calculate_validation_score" /\ ~args.format_valid) => result = 0
    /\ (Reported /\ ~result.report.format_valid)
           => result.report.validation_score = 0

\* C1 witness: a call whose other arguments are the best ones, scored 0
C1_Witness ==
    /\ op = "calculate_validation_score"
    /\ ~args.format_valid
    /\ args.domain_exists
    /\ args.domain_matches_brand
    /\ args.brand_match_confidence = 100
    /\ args.suspicion_penalty = 0
    /\ result = 0

\* C2: in every report of validate_email, the early return for empty input
\* included, is_valid is true exactly when format_valid is true and
\* validation_score is at least 0.30.
C2_IsValidIffFormatAndScore ==
    Reported =>
        (result.report.is_valid
            <=> (result.report.format_valid
                 /\ result.report.validation_score >= 300000))

\* C2 witness: a well-formed address reported not valid for its score alone
C2_Witness ==
    /\ Reported
    /\ result.report.format_valid
    /\ result.report.validation_score < 300000
    /\ ~result.report.is_valid

\* The bounds of a score, as the claims state them
Clamped(x) == IF x < 0 THEN 0 ELSE IF x > 1000000 THEN 1000000 ELSE x

\* C3 as stated: with the format valid, the score is
\* clamp((0.5 + 0.2*exists + 0.3*confidence) * (1 - penalty)) whatever the
\* brand 'matches' flag is.
C3_ScoreFormulaAnyMatchesFlag ==
    (op = "calculate_validation_score" /\ args.format_valid) =>
        result = Clamped((5000 + (IF args.domain_exists THEN 2000 ELSE 0)
                               + 30 * args.brand_match_confidence)
                         * (100 - args.suspicion_penalty))

\* C3 as amended: with the format valid, the score is
\* clamp((0.5 + 0.2*exists + (0.3*confidence if matches else 0)) * (1 - penalty)):
\* the brand term counts only when the 'matches' flag is true; exists, matches,
\* confidence 1.0 and penalty 0.0 give exactly 1.0, and penalty 0.5 gives 0.5.
C3_ScoreFormulaMatchesGated ==
    (op = "calculate_validation_score" /\ args.format_valid) =>
        /\ result = Clamped((5000 + (IF args.domain_exists THEN 2000 ELSE 0)
                                  + (IF args.domain_matches_brand
                                     THEN 30 * args.brand_match_confidence ELSE 0))
                            * (100 - args.suspicion_penalty))
        /\ (/\ args.domain_exists
            /\ args.domain_matches_brand
            /\ args.brand_match_confidence = 100)
               => /\ args.suspicion_penalty = 0 => result = 1000000
                  /\ args.suspicion_penalty = 50 => result = 500000

\* C3 witness: the perfect inputs under a penalty of 0.5, scored 0.5
C3_Witness ==
    /\ op = "calculate_validation_score"
    /\ args.format_valid
    /\ args.domain_exists
    /\ args.domain_matches_brand
    /\ args.brand_match_confidence = 100
    /\ args.suspicion_penalty = 50
    /\ result = 500000

\* C4: detect_suspicious_patterns returns a penalty between 0.0 and 1.0 for
\* every address, and the composed score is between 0.0 and 1.0 for every
\* combination of inputs, in a direct call and in a report.
C4_PenaltyAndScoreInUnitRange ==
    /\ op = "detect_suspicious_patterns"
           => (0 <= result.penalty /\ result.penalty <= 100)
    /\ op = "calculate_validation_score" => (0 <= result /\ result <= 1000000)
    /\ Reported
           => /\ 0 <= result.report.suspicion_penalty
              /\ result.report.suspicion_penalty <= 100
              /\ 0 <= result.report.validation_score
              /\ result.report.validation_score <= 1000000

\* C4 witness: a report of a well-formed address that carries a penalty of
\* a half or more and still a score above 0
C4_Witness ==
    /\ Reported
    /\ result.report.format_valid
    /\ result.report.suspicion_penalty >= 50
    /\ result.report.validation_score > 0
    /\ result.report.validation_score < 1000000

\* C5: while calls with different timeout arguments overlap, the timeout in
\* effect at each lookup of a call is that call's own timeout argument.
C5_TimeoutScopedToCall ==
    \A t \in Threads :
        \A i \in 1..Len(lookups[t]) : lookups[t][i].timeout = timeoutArg[t]

\* The lookups that succeed
Succeeded(lookup) == lookup.outcome \in {"records", "resolved"}

\* C6: whatever the lookups report, check_domain_mx_records returns an
\* (exists, detail) pair and raises nothing; exists is false unless the last
\* lookup succeeded, and detail is not empty.
C6_ResolverNeverRaises ==
    \A t \in Threads :
        tpc[t] = "returned" =>
            /\ mxResult[t].kind = "return"
            /\ mxResult[t].detail # ""
            /\ Len(lookups[t]) > 0
            /\ mxResult[t].exists => Succeeded(lookups[t][Len(lookups[t])])

\* C6 witness: a call whose hostname lookup failed with an unforeseen error
C6_Witness ==
    \E t \in Threads :
        /\ tpc[t] = "returned"
        /\ Len(lookups[t]) = 1
        /\ lookups[t][1].outcome = "other_error"
        /\ mxResult[t].kind = "return"
        /\ ~mxResult[t].exists

C8_IssuesEmptyIffValid ==
    /\ op = "check_email_format" => (result.issues = <<>> <=> result.valid)
    /\ Reported
           => (result.report.format_issues = <<>> <=> result.report.format_valid)

\* C8 witness: an address that passes the pattern and breaks two rules
C8_Witness ==
    /\ op = "check_email_format"
    /\ PatternMatch(Strip(args.email))
    /\ Len(result.issues) >= 2
    /\ ~result.valid

\* The first place of x in s
FirstIndex(s, x) == SetMin({i \in 1..Len(s) : s[i] = x})

\* C9: extract_emails_from_text returns lower-case addresses, none twice, in
\* the order in which each first occurs among the matches in the text, and
\* exactly the addresses matched; a text with no match gives the empty list.
C9_ExtractUniqueLowerInOrder ==
    op = "extract_emails_from_text" =>
        LET found == FindAll(args.text)
            lowered == [i \in 1..Len(found) |-> Lower(found[i])]
        IN  /\ \A i \in 1..Len(result) : result[i] = Lower(result[i])
            /\ \A i, j \in 1..Len(result) : i # j => result[i] # result[j]
            /\ {result[i] : i \in 1..Len(result)}
                   = {lowered[i] : i \in 1..Len(lowered)}
            /\ \A i, j \in 1..Len(result) :
                   i < j => FirstIndex(lowered, result[i]) < FirstIndex(lowered, result[j])
            /\ Len(found) = 0 => result = <<>>

\* C9 witness: a text where an address comes back in another case
C9_Witness ==
    /\ op = "extract_emails_from_text"
    /\ Len(FindAll(args.text)) = 3
    /\ FindAll(args.text)[1] # FindAll(args.text)[3]
    /\ Lower(FindAll(args.text)[1]) = Lower(FindAll(args.text)[3])
    /\ Len(result) = 2

Blank(s) == Len(Strip(s)) = 0

\* C11: brand matching does nothing when the brand name is empty or white
\* space only, or the address is not well-formed: matches is false and the
\* confidence 0.0, in a direct call of check_domain_matches_brand and in
\* every report of validate_email.
C11_BrandNoOpWithoutBrandOrFormat ==
    /\ (/\ op = "check_domain_matches_brand"
        /\ Blank(args.brand_name) \/ ~check_email_format(args.email).valid)
           => (~result.matches /\ result.confidence = 0)
    /\ (/\ Reported
        /\ Blank(args.brand_name) \/ ~check_email_format(args.email).valid)
           => /\ ~result.report.domain_matches_brand
              /\ result.report.brand_match_confidence = 0
              /\ result.report.brand_match_reasoning
                     \in {"Skipped - no brand name provided", "Skipped - invalid email"}

\* C11, inside validate_email alone: the part of the statement that holds
C11_BrandNoOpInReports ==
    (/\ Reported
     /\ Blank(args.brand_name) \/ ~check_email_format(args.email).valid)
        => /\ ~result.report.domain_matches_brand
           /\ result.report.brand_match_confidence = 0

\* The heuristics of the suspicion detector as the specification's table
\* states them, each on the lower-case domain or local part
C12_Triggered(email) ==
    LET local == Lower(RSplitHead(email, "@"))
        domain == Lower(RSplitTail(email, "@"))
        tld == IF HasChar(domain, ".") THEN RSplitTail(domain, ".") ELSE <<>>
        base == IF HasChar(domain, ".") THEN RSplitHead(domain, ".") ELSE domain
    IN  << domain \in FREE_EMAIL_PROVIDERS,
           tld \in SUSPICIOUS_TLDS,
           CountIn(base, Digits) > 3,
           LowVowelRatio(base),
           StartsWith(local, <<"n", "o", "-", "r", "e", "p", "l", "y">>)
               \/ StartsWith(local, <<"n", "o", "r", "e", "p", "l", "y">>),
           StartsWith(local, <<"a", "d", "m", "i", "n">>)
               \/ StartsWith(local, <<"p", "o", "s", "t", "m", "a", "s", "t", "e", "r">>),
           Len(email) > 100,
           IsIpLiteral(domain) >>

C12_Weights == <<40, 30, 20, 15, 10, 5, 10, 50>>

C12_Flags ==
    << "Free email provider", "Suspicious TLD", "Domain contains many numbers",
       "Domain appears random (low vowel ratio)",
       "No-reply address unlikely to be support contact",
       "Administrative address unlikely to be support contact",
       "Unusually long email address", "Domain is an IP address" >>

RECURSIVE TriggeredOf(_, _, _)
\* The values of the triggered heuristics from the i-th on, in table order
TriggeredOf(triggered, values, i) ==
    IF i > Len(triggered) THEN <<>>
    ELSE (IF triggered[i] THEN <<values[i]>> ELSE <<>>)
         \o TriggeredOf(triggered, values, i + 1)

RECURSIVE SumSeq(_)
SumSeq(s) == IF Len(s) = 0 THEN 0 ELSE Head(s) + SumSeq(Tail(s))

C12_SumOfTriggered(email) ==
    LET sum == SumSeq(TriggeredOf(C12_Triggered(email), C12_Weights, 1))
    IN  /\ result.penalty = IF sum < 100 THEN sum ELSE 100
        /\ result.flags = TriggeredOf(C12_Triggered(email), C12_Flags, 1)

\* C12: for every address with "@", detect_suspicious_patterns returns the
\* sum, capped at 1.0, of the weights of exactly the heuristics that are
\* triggered, and one flag for each of them in the order of evaluation.
C12_PenaltyIsSumOfTriggered ==
    (op = "detect_suspicious_patterns" /\ HasChar(args.email, "@"))
        => C12_SumOfTriggered(args.email)

\* C12 for the addresses validate_email passes on, which are in lower case
C12_PenaltyIsSumOfTriggeredLowerCase ==
    (/\ op = "detect_suspicious_patterns"
     /\ HasChar(args.email, "@")
     /\ args.email = Lower(args.email))
        => C12_SumOfTriggered(args.email)

\* C13: for every input without "@", detect_suspicious_patterns returns one
\* flag, which is none of the heuristics' flags, and the penalty 1.0.
C13_NoAtShortCircuits ==
    (op = "detect_suspicious_patterns" /\ ~HasChar(args.email, "@"))
        => /\ result.flags = <<"Invalid email format">>
           /\ result.penalty = 100
           /\ \A i \in 1..Len(C12_Flags) : C12_Flags[i] # result.flags[1]

\* C13 witness: an input that is not empty and has no "@", penalised 1.0
C13_Witness ==
    /\ op = "detect_suspicious_patterns"
    /\ ~HasChar(args.email, "@")
    /\ Len(args.email) > 0
    /\ Len(result.flags) = 1
    /\ result.penalty = 100

\* The message as the statement describes it: the issues or the score's
\* bucket, then the first three flags when there are flags
C14_Message(report) ==
    LET n == Len(report.suspicion_flags)
    IN  (IF ~report.format_valid
         THEN <<"Invalid email format: ">> \o report.format_issues
         ELSE IF report.validation_score >= 700000
         THEN <<"Email appears legitimate">>
         ELSE IF report.validation_score >= 400000
         THEN <<"Email may be valid but has concerns">>
         ELSE <<"Email has significant concerns">>)
        \o (IF n = 0 THEN <<>>
            ELSE <<". Concerns: ">>
                 \o [i \in 1..(IF n < 3 THEN n ELSE 3) |-> report.suspicion_flags[i]])

\* C14 as stated: in every report the message lists the format issues when
\* the format is invalid, names the score's bucket otherwise, and appends
\* the first three suspicion flags when there are flags.
C14_MessageFromFieldsEveryReport ==
    Reported => result.report.message = C14_Message(result.report)

\* C14: the same for every report but that of an empty or white-space-only
\* address, whose message is the fixed text of the early return.
C14_MessageFromFields ==
    Reported =>
        result.report.message =
            IF Blank(args.email)
            THEN <<"Error: email is required and cannot be empty.">>
            ELSE C14_Message(result.report)

\* C14 witness: a well-formed address with four flags, three in the message
C14_Witness ==
    /\ Reported
    /\ result.report.format_valid
    /\ Len(result.report.suspicion_flags) = 4
    /\ Len(result.report.message) = 5

\* C15: validate_email returns a report and raises nothing, for every
\* address, brand name and outcome of the resolver; an address that is
\* empty, white space only or malformed is reported not valid, its format
\* invalid and its score 0.0.
C15_ValidateEmailNeverRaises ==
    op = "validate_email" =>
        /\ result.kind = "return"
        /\ (Blank(args.email) \/ ~check_email_format(args.email).valid)
               => /\ ~result.report.is_valid
                  /\ ~result.report.format_valid
                  /\ result.report.validation_score = 0

\* C15 witness: a report made after the resolver's outermost handler ran
C15_Witness ==
    /\ Reported
    /\ args.check_mx
    /\ result.mx_calls # <<>>
    /\ result.report.domain_check_message = "MX check error: "
    /\ ~result.report.domain_exists

\* C16: validate_email calls the resolver, once, exactly when the address is
\* well-formed and check_mx is true; otherwise domain_exists is false and
\* domain_check_message a "Skipped" text, "Skipped - MX check disabled" for
\* a well-formed address with check_mx false.
C16_ResolverIffFormatAndCheckMx ==
    Reported =>
        LET wanted == check_email_format(args.email).valid /\ args.check_mx
        IN  /\ Len(result.mx_calls) = (IF wanted THEN 1 ELSE 0)
            /\ ~wanted =>
                /\ ~result.report.domain_exists
                /\ result.report.domain_check_message
                       \in {"Skipped", "Skipped - invalid email",
                            "Skipped - MX check disabled"}
            /\ (check_email_format(args.email).valid /\ ~args.check_mx)
                   => result.report.domain_check_message
                          = "Skipped - MX check disabled"

\* C16 witness: a well-formed address reported with the MX check disabled
C16_Witness ==
    /\ Reported
    /\ result.report.format_valid
    /\ ~args.check_mx
    /\ result.mx_calls = <<>>
    /\ result.report.domain_check_message = "Skipped - MX check disabled"

\* A call of a database tool that has returned
DbReturned(name) == pc = "returned" /\ op = name

\* C17: the history table holds one record for every update_claim_status
\* call that changed a claim row, with the call's claim id, status and
\* timestamp, and no other record, whatever calls were made and whichever
\* of them failed.
C17_HistoryRecordsEveryChange ==
    /\ Len(claim_status_history) = Len(changedRows)
    /\ \A i \in 1..Len(changedRows) :
           /\ i <= Len(claim_status_history)
           /\ claim_status_history[i].claim_id = changedRows[i].claim_id
           /\ claim_status_history[i].status = changedRows[i].status
           /\ claim_status_history[i].created_at = changedRows[i].at

\* C17, the part that holds: every history record is that of a call that
\* changed a row, and a call that changed no row leaves no record.
C17_HistoryOnlyOfChanges ==
    \A i \in 1..Len(claim_status_history) :
        \E j \in 1..Len(changedRows) :
            /\ claim_status_history[i].claim_id = changedRows[j].claim_id
            /\ claim_status_history[i].status = changedRows[j].status
            /\ claim_status_history[i].created_at = changedRows[j].at

\* The arguments update_claim_status turns down at lines 67 and 78
C18_Rejected(a) == IsBlank(a.claim_id) \/ Upper(a.status) \notin ClaimStatus

\* C18: update_claim_status writes only for a claim_id that is not blank and
\* a status that is, in any case of letters, one of the four values; for
\* other arguments it returns success false with a message and leaves the
\* claim rows and the history as they were; a stored status is always one of
\* the four upper-case values.
C18_WritesOnlyValidStatus ==
    /\ [](/\ \A id \in DOMAIN warranty_claims :
                warranty_claims[id].status \in ClaimStatus
          /\ \A i \in 1..Len(claim_status_history) :
                claim_status_history[i].status \in ClaimStatus)
    /\ [][(op' = "update_claim_status" /\ C18_Rejected(args'))
             => /\ warranty_claims' = warranty_claims
                /\ claim_status_history' = claim_status_history
                /\ result'.success = FALSE
                /\ result'.message
                       \in {"Error: claim_id is required and cannot be empty.",
                            "Error: Invalid status"}]_vars

\* C18 witness: a status that is no value turned down for the existing
\* claim, after an update with a lower-case status was stored in upper case
C18_Witness ==
    /\ DbReturned("update_claim_status")
    /\ args.claim_id = ClaimC1
    /\ args.status = <<"D", "O", "N", "E">>
    /\ ~result.success
    /\ warranty_claims[ClaimC1].status
           = <<"S", "U", "B", "M", "I", "T", "T", "E", "D">>
    /\ Len(claim_status_history) = 1

\* The key that tells success in a tool's result
C19_Flag == IF op = "update_claim_status" THEN "success" ELSE "found"

\* The call got past the validation of its arguments
C19_Accepted ==
    IF op = "update_claim_status" THEN ~C18_Rejected(args)
    ELSE IF op = "search_support_contacts" THEN ~IsBlank(args.brand_name)
    ELSE ~IsBlank(args.claim_id)

\* A table call the call reached has raised
C19_TableCallRaised ==
    LET found == Strip(args.claim_id) \in DOMAIN warranty_claims
    IN  IF op = "update_claim_status"
        THEN args.upd = "raise" \/ (found /\ args.ins = "raise")
        ELSE IF op = "get_claim_status"
        THEN \/ args.sel = "raise"
             \/ found /\ args.sel = "ok" /\ args.include_history /\ args.hist = "raise"
        ELSE IF op = "get_claim_details" THEN args.sel = "raise"
        ELSE args.ex = "raise"

\* C19: each of the four database tools returns a result and raises
\* nothing; when get_client raised, which leaves no client behind, or a
\* table call raised, the result has found or success false and error true.
C19_DbErrorsBecomeResults ==
    (pc = "returned" /\ op \in {"update_claim_status", "get_claim_status",
                                "get_claim_details", "search_support_contacts"})
        => /\ C19_Flag \in DOMAIN result
           /\ "message" \in DOMAIN result
           /\ (C19_Accepted /\ (supabase_client = NoClient \/ C19_TableCallRaised))
                  => /\ result[C19_Flag] = FALSE
                     /\ "error" \in DOMAIN result
                     /\ result.error = TRUE

\* C19 witness: a call that found no client and could not get one
C19_Witness ==
    /\ DbReturned("get_claim_details")
    /\ C19_Accepted
    /\ supabase_client = NoClient
    /\ result.message = "Database connection error: "
    /\ ~result.found

\* C20: at most one client instance is ever created, and every call of
\* get_client that returns returns that instance, also when the first calls
\* run at the same time.
C20_OneClientInstance ==
    /\ clientsCreated <= 1
    /\ \A t \in Threads :
           (gpc[t] = "returned" /\ gResult[t].kind = "return")
               => gResult[t].client = Client(1)

\* C20, for calls that do not overlap: the second call of two gets the
\* instance the first one made
C20_SequentialCallsShareClient ==
    pc = "returned" => (clientsCreated <= 1 /\ supabase_client = lruCache)

\* C22: check_email_format reports every input that is empty or white space
\* only as invalid with the one issue "Email is empty".
C22_BlankInputIsEmptyIssue ==
    (op = "check_email_format" /\ Blank(args.email))
        => (~result.valid /\ result.issues = <<"Email is empty">>)

\* C22, the part that holds: a blank input is invalid with a single issue
C22_BlankInputIsInvalid ==
    (op = "check_email_format" /\ Blank(args.email))
        => (~result.valid /\ Len(result.issues) = 1)

\* The rules on the local part and on the domain of a stripped address,
\* each with its issue
C24_Rules(e) ==
    LET local_part == RSplitHead(e, "@")
        domain == RSplitTail(e, "@")
    IN  { <<Len(local_part) < 1, "Local part (before @) is empty">>,
          <<Len(local_part) > 64, "Local part exceeds 64 characters">>,
          <<StartsWith(local_part, <<".">>), "Local part starts with period">>,
          <<EndsWith(local_part, <<".">>), "Local part ends with period">>,
          <<Contains(local_part, <<".", ".">>), "Local part contains consecutive periods">>,
          <<Len(domain) < 3, "Domain is too short">>,
          <<Len(domain) > 255, "Domain exceeds 255 characters">>,
          <<StartsWith(domain, <<".">>), "Domain starts with period">>,
          <<StartsWith(domain, <<"-">>), "Domain starts with hyphen">>,
          <<EndsWith(domain, <<"-">>), "Domain ends with hyphen">>,
          <<Contains(domain, <<".", ".">>), "Domain contains consecutive periods">> }

C24_Violated(e) == {r[2] : r \in {q \in C24_Rules(e) : q[1]}}

\* C24: for an address that does not match the pattern, check_email_format
\* returns the one pattern issue and no issue of a rule; for one that does,
\* the issues are those of the violated rules, one for each.
C24_PatternGateThenEveryRule ==
    (op = "check_email_format" /\ Len(args.email) > 0) =>
        LET e == Strip(args.email)
        IN  IF ~PatternMatch(e)
            THEN result.issues = <<"Email format does not match RFC 5322 pattern">>
            ELSE /\ {result.issues[i] : i \in 1..Len(result.issues)} = C24_Violated(e)
                 /\ Len(result.issues) = Cardinality(C24_Violated(e))

\* C24 witness: an address that matches the pattern and breaks a rule on
\* its local part and one on its domain
C24_Witness ==
    /\ op = "check_email_format"
    /\ PatternMatch(Strip(args.email))
    /\ Len(result.issues) = 2
    /\ result.issues[1] = "Local part starts with period"
    /\ result.issues[2] = "Domain contains consecutive periods"

\* C27: once every check_domain_mx_records call has returned, the socket
\* default timeout is what it was before the first call, None.
C27_SocketDefaultRestored ==
    (\A t \in Threads : tpc[t] \in {"idle", "returned"})
        => socketDefault = NoTimeout

\* C28: the penalty of an address with "@" is below 1.0, so the penalty 1.0
\* is that of an input without "@"; in every report the score is 0.0
\* exactly when the format is invalid.
C28_PenaltyBelowOneWithAt ==
    /\ (op = "detect_suspicious_patterns" /\ HasChar(args.email, "@"))
           => result.penalty < 100
    /\ (Reported /\ HasChar(Strip(args.email), "@"))
           => result.report.suspicion_penalty < 100
    /\ Reported
           => (result.report.validation_score = 0 <=> ~result.report.format_valid)

\* C28 witness: the heaviest heuristics that trigger together, 0.9 in all
C28_Witness ==
    /\ op = "detect_suspicious_patterns"
    /\ HasChar(args.email, "@")
    /\ Len(result.flags) = 4
    /\ result.penalty = 90

\* The domain of the address validate_email works on
C29_Domain(email) == RSplitTail(Lower(Strip(email)), "@")

\* C29: an address of a free provider is scored 0.6 at most, whatever the
\* brand name and the resolver's answer, and is never reported as
\* "appears legitimate".
C29_FreeProviderAtMostSixTenths ==
    (Reported /\ HasChar(args.email, "@") /\ C29_Domain(args.email) \in FREE_EMAIL_PROVIDERS)
        => /\ result.report.validation_score <= 600000
           /\ result.report.message[1] # "Email appears legitimate"

\* C29 witness: a free provider's address whose domain exists and matches
\* the brand exactly, scored 0.6
C29_Witness ==
    /\ Reported
    /\ C29_Domain(args.email) \in FREE_EMAIL_PROVIDERS
    /\ result.report.domain_exists
    /\ result.report.brand_match_confidence = 100
    /\ result.report.validation_score = 600000

\* C30: web_search.validate_email_format returns true for exactly the
\* addresses check_email_format finds valid.
C30_ValidatorsAgree ==
    /\ op = "validate_email_format"
           => (result <=> check_email_format(args.email).valid)
    /\ op = "check_email_format"
           => (result.valid <=> validate_email_format(args.email))

\* C30, the part that holds: on an address without white space around it,
\* what validate_email_format turns down check_email_format turns down too
C30_WebRejectsImplyFormatRejects ==
    (op = "validate_email_format" /\ args.email = Strip(args.email) /\ ~result)
        => ~check_email_format(args.email).valid

\* C23 as stated: a call of update_claim_status with the keyword arguments
\* of the HUMAN_REVIEW flow (attempted_emails and pending_reason among them)
\* and status PENDING, for an existing claim and a database that works,
\* returns success true with status PENDING.
C23_HumanReviewUpdateSucceeds ==
    ( /\ pc = "returned"
      /\ op = "update_claim_status(**keywords)"
      /\ args.keywords = HumanReviewKeywords
      /\ args.status = <<"P", "E", "N", "D", "I", "N", "G">>
      /\ args.claim_id \in DOMAIN warranty_claims
      /\ args.connect = "ok" /\ args.upd = "ok" /\ args.ins = "ok" )
        => /\ "success" \in DOMAIN result
           /\ result.success = TRUE
           /\ result.status = <<"P", "E", "N", "D", "I", "N", "G">>

\* C23, what the call does: it raises TypeError and writes nothing
C23_HumanReviewUpdateRaises ==
    (pc = "returned" /\ op = "update_claim_status(**keywords)"
        /\ args.keywords = HumanReviewKeywords)
        => result = Raise("TypeError")

\* C23: the same call without the two keywords succeeds
C23_RequiresReviewUpdateSucceeds ==
    ( /\ pc = "returned"
      /\ op = "update_claim_status(**keywords)"
      /\ args.keywords = RequiresReviewKeywords
      /\ args.claim_id \in DOMAIN warranty_claims
      /\ args.connect = "ok" /\ args.upd = "ok" /\ args.ins = "ok" )
        => /\ "success" \in DOMAIN result
           /\ result.success = TRUE

\* A call of update_claim_status that returns success true
C25_Succeeds ==
    /\ pc = "idle"
    /\ pc' = "returned"
    /\ op' = "update_claim_status"
    /\ "success" \in DOMAIN result'
    /\ result'.success = TRUE

\* C25: a successful update_claim_status call leaves every other claim row
\* and the row's created_at alone, sets status and updated_at, sets each
\* optional column that was passed with a value to that value, stripped,
\* and leaves the stored value of a column whose argument is blank (or 0,
\* for confidence_score) unchanged.
C25_UpdateWritesOnlyGivenColumns ==
    [][ C25_Succeeds =>
          LET id == Strip(args'.claim_id)
              opt == args'.opt
              old == warranty_claims[id]
              new == warranty_claims'[id]
          IN  /\ DOMAIN warranty_claims' = DOMAIN warranty_claims
              /\ \A other \in DOMAIN warranty_claims \ {id} :
                     warranty_claims'[other] = warranty_claims[other]
              /\ DOMAIN new = DOMAIN old
              /\ new.created_at = old.created_at
              /\ new.status = Upper(args'.status)
              /\ new.updated_at = clock'
              /\ new.support_email_used =
                     IF IsBlank(opt.support_email_used) THEN old.support_email_used
                     ELSE Strip(opt.support_email_used)
              /\ new.confidence_score =
                     IF opt.confidence_score = 0 THEN old.confidence_score
                     ELSE opt.confidence_score
              /\ new.judge_reasoning =
                     IF IsBlank(opt.judge_reasoning) THEN old.judge_reasoning
                     ELSE Strip(opt.judge_reasoning) ]_vars

\* C25 witness: a successful call without optional values has changed the
\* status of a row that still holds the values stored before
C25_Witness ==
    /\ pc = "returned"
    /\ op = "update_claim_status"
    /\ "success" \in DOMAIN result
    /\ result.success = TRUE
    /\ IsBlank(args.opt.support_email_used)
    /\ args.opt.confidence_score = 0
    /\ IsBlank(args.opt.judge_reasoning)
    /\ warranty_claims[ClaimC1].status = <<"F", "A", "I", "L", "E", "D">>
    /\ warranty_claims[ClaimC1].updated_at = clock
    /\ warranty_claims[ClaimC1].support_email_used = InitialClaims[ClaimC1].support_email_used
    /\ warranty_claims[ClaimC1].confidence_score = InitialClaims[ClaimC1].confidence_score
    /\ warranty_claims[ClaimC1].judge_reasoning = InitialClaims[ClaimC1].judge_reasoning

\* C21: the judge_agent starts only after both search agents have finished;
\* the values its placeholders took are the results the db_search_agent and
\* the web_search_agent wrote, each under its own key, and once a search
\* agent has finished its key holds its own result whatever the order of
\* the two.
C21_JudgeAfterBothSearches ==
    /\ output_key["db_search_agent"] # output_key["web_search_agent"]
    /\ \A i \in 1..Len(search_pipeline) :
           LET a == search_pipeline[i]
           IN  agentPc[a] = "finished"
                   => /\ session_state[output_key[a]] # Unset
                      /\ session_state[output_key[a]].by = a
    /\ agentPc["judge_agent"] # "waiting"
           => /\ agentPc["db_search_agent"] = "finished"
              /\ agentPc["web_search_agent"] = "finished"
              /\ judgeInput # Unset
              /\ judgeInput.internal_search_result
                     = session_state["internal_search_result"]
              /\ judgeInput.web_search_result = session_state["web_search_result"]
              /\ judgeInput.internal_search_result # Unset
              /\ judgeInput.web_search_result # Unset

\* C21 witness: the judge runs on two search results that differ
C21_Witness ==
    /\ agentPc["judge_agent"] = "running"
    /\ judgeInput # Unset
    /\ Found(judgeInput.web_search_result)
    /\ judgeInput.internal_search_result # Unset
    /\ ~Found(judgeInput.internal_search_result)

\* C26 as stated: under every configured threshold a verdict with decision
\* AUTO_SUBMIT is routed to the AUTO_SUBMIT flow and a verdict with decision
\* HUMAN_REVIEW is not.
C26_RoutingFollowsDecision ==
    (agentPc[Root] = "routed" /\ session_state["judge_verdict"].has_email)
        => (session_state["judge_verdict"].decision = "AUTO_SUBMIT"
                <=> route = "AUTO_SUBMIT")

\* C26, the part that holds: under the default threshold the orchestrator's
\* flow is the judge's decision
C26_RoutingFollowsDecisionAtDefault ==
    ( /\ agentPc[Root] = "routed"
      /\ session_state["judge_verdict"].has_email
      /\ confidence_threshold = DefaultThreshold )
        => route = session_state["judge_verdict"].decision

====
